---- MODULE Spec2Model ----
(***************************************************************************)
(* Content-Generation-Crew: the tool-use loop of chat()                    *)
(* (gemini_client.py), the QA retry loop of run_production()               *)
(* (agents/production.py) and the production-phase attempt loops of the    *)
(* CLI flow (flow.py) and the web flow (web_flow.py).                      *)
(*                                                                         *)
(* Strings of the chat model are sequences of pieces (a piece is an atomic *)
(* run of characters), so that concatenation, f-strings and "\n".join are  *)
(* modelled as the sequence operations they are.  Strings of the QA model  *)
(* are sequences of single characters, so that upper() and the substring   *)
(* test are computed character by character.                               *)
(***************************************************************************)
EXTENDS Integers, Sequences, FiniteSets, TLC

VARIABLES
    \* ---- chat(): inputs
    api_key,          \* ANTHROPIC_API_KEY is set in the environment
    tools,            \* the registry argument: [given, names]
    max_tool_rounds,  \* the round cap argument
    \* ---- chat(): locals
    chat_pc,          \* "start" | "loop" | "tools" | "done" | "raised"
    messages,         \* the message history
    response,         \* the last provider response
    rounds,           \* completed tool round trips
    tool_use_blocks,  \* the tool_use blocks of the response being served
    tool_results,     \* the results collected so far in this round
    chat_ret,         \* the returned string
    chat_err,         \* the exception that left chat, or "none"
    \* ---- chat(): history of the calls chat made to its collaborators
    sends,            \* the message history passed to each messages.create
    responses,        \* the responses the provider gave, in order
    invocations,      \* the tool calls made: [name, args, id, raised]
    \* ---- which entry point the behaviour exercises
    driver,           \* "chat" | "run_production" | "cli" | "web"
    \* ---- run_production(): input, locals, result
    max_qa_attempts,
    qa_pc,            \* "idle" | "write" | "review" | "done" | "raised"
    article,          \* the text that the next review is given
    attempt,          \* the loop variable
    qa_passed,
    qa_ret,           \* <<article_text, qa_passed, attempts>>, <<>> until returned
    qa_log,           \* the on_log calls: <<agent, event, number>>
    \* ---- run_production(): history of its chat() calls
    writer_calls,     \* each writer call: [raised, text]
    review_inputs,    \* the article text embedded in each qa_task
    review_outputs,   \* what each review call returned
    \* ---- production phase of the flows (flow.py, web_flow.py)
    briefs,           \* state.briefs
    brief_files,      \* the filenames present under <output_dir>/briefs
    flow_pc,          \* "idle" | "start" | "begin" | "attempt" | "done" | "failed"
    sorted_briefs,
    brief_i,          \* 1-based position in sorted_briefs
    flow_attempt,     \* the inner loop variable
    brief_content,    \* the content read for the current brief
    inputs,           \* the kickoff inputs of the current brief
    result_text,      \* the text of the last kickoff result
    articles,         \* state.articles
    current_phase,    \* state.current_phase (CLI flow)
    index_written,    \* state.production_index_path is set (CLI flow)
    run_phase,        \* run.phase (web flow)
    run_error,        \* run.error (web flow), "None" when unset
    run_progress,     \* run.progress (web flow)
    run_log,          \* run.log_queue (web flow): <<source, event, level>>
    \* ---- phases 1 and 2 of the flows and their checkpoints
    topic_file,       \* the CSV at state.topic_map_csv_path: [state, rows]
    topic_entries,    \* state.topic_entries
    topic_edit,       \* the table in the dashboard's data_editor: [edited, table]
    sorted_topics,    \* the local of the brief phase
    topic_i,          \* 1-based position in sorted_topics
    csv_edited,       \* a human changed the CSV during the phase-1 checkpoint
    parse_report,     \* the messages of _parse_topic_map: <<outcome, count>>
    approved,         \* the checkpoints approved so far, in order (history)
    \* ---- the loops over sorted topics and sorted briefs
    sort_site,        \* "brief" | "production": the phase whose loop runs
    sort_input,       \* state.topic_entries or state.briefs
    sort_pc,          \* "idle" | "sort" | "loop" | "done"
    sorted_entries,   \* sorted_topics or sorted_briefs
    processed,        \* the entries the loop body has been run for, in order
    \* ---- one run's log queue and the dashboard session observing it
    log_queue,        \* run.log_queue
    emitted,          \* the events passed to emit_log, in call order (history)
    current_run_id,   \* st.session_state.current_run_id: "None" | "new" | "run"
    session_logs,     \* st.session_state.logs
    drain_pc,         \* "idle" | "draining": the script is inside drain_logs
    delivered,        \* the events drain_logs has appended, in order (history)
    \* ---- RunManager and its runs
    runs_dict,        \* RunManager._runs: <<run_id, run>> in insertion order
    heap,             \* the PipelineRun objects constructed so far
    callers,          \* per calling thread: [pc, run] of its create_run call
    returned,         \* the runs create_run has returned (history)
    last_get,         \* the argument and result of the last get_run call
    last_list,        \* the result of the last list_runs call
    \* ---- _convert_tool_declarations
    gemini_decls,     \* the argument: declaration groups in the source dialect
    anthropic_tools,  \* the value returned
    conv_pc,          \* "idle" | "call" | "returned"
    \* ---- the topic-map CSV from the writer tool to _parse_topic_map
    csv_values,       \* the header names and the rows of values the author writes
    csv_content,      \* the csv_content argument: lines of text
    csv_file,         \* the file at output_path: "absent" or its lines
    writer_result,    \* what CSVWriterTool._run returned
    csv_entries,      \* state.topic_entries
    csv_report,       \* the outcome _parse_topic_map reports
    csv_briefs,       \* state.briefs
    csv_pc,           \* "idle" | "write" | "parse" | "briefs" | "done"
    \* ---- two pipelines at work at once and the files they write
    session_kind,     \* per session: "cli" (ContentFlow) | "web" (PipelineRun)
    seed_topic,       \* per session: state.seed_topic
    output_dir,       \* per session: state.output_dir, <<>> before it is set
    session_pc,       \* per session: "start" | "phase1" | "phase2" | "brief_index"
                      \*   | "phase3" | "production_index" | "done"
    session_i,        \* per session: topics handled in the running phase
    files_written,    \* per session: the paths written so far
    \* ---- the threads of one web run and the script of the dashboard
    thread_pc,        \* per phase: where the thread of the phase is
    script_pc,        \* where the script run of render_run_detail is
    shown_error,      \* what st.error displayed last: "nothing" or run.error
    shown_button,     \* the approve button on the page: "none" | "approve_p1" | "approve_p2"
    \* ---- ContentFlow: what its methods return
    brief_phase_ret,  \* what run_brief_phase returned, "None" before it has
    click             \* the button whose click started this script run

chatVars == <<api_key, tools, max_tool_rounds, chat_pc, messages, response,
              rounds, tool_use_blocks, tool_results, chat_ret, chat_err,
              sends, responses, invocations>>

qaVars == <<max_qa_attempts, qa_pc, article, attempt, qa_passed, qa_ret, qa_log,
            writer_calls, review_inputs, review_outputs>>

flowVars == <<briefs, brief_files, flow_pc, sorted_briefs, brief_i, flow_attempt,
              brief_content, inputs, result_text, articles, current_phase,
              index_written, run_phase, run_error, run_progress, run_log>>

pipeVars == <<topic_file, topic_entries, topic_edit, sorted_topics, topic_i,
              csv_edited, parse_report, approved>>

sortVars == <<sort_site, sort_input, sort_pc, sorted_entries, processed>>

logVars == <<log_queue, emitted, current_run_id, session_logs, drain_pc, delivered>>

regVars == <<runs_dict, heap, callers, returned, last_get, last_list>>

appVars == <<pipeVars, sortVars, logVars, regVars>>

convVars == <<gemini_decls, anthropic_tools, conv_pc>>

csvVars == <<csv_values, csv_content, csv_file, writer_result, csv_entries,
             csv_report, csv_briefs, csv_pc>>

pathVars == <<session_kind, seed_topic, output_dir, session_pc, session_i,
              files_written>>

thrVars == <<thread_pc, script_pc, shown_error, shown_button, click>>

retVars == <<brief_phase_ret>>

extVars == <<convVars, csvVars, pathVars, thrVars, retVars>>

vars == <<chatVars, driver, qaVars, flowVars, appVars, extVars>>

\* ------------------------------------------------------------------ bounds
MaxRounds == 2

\* -------------------------------------------- entry points not exercised
NoText == <<>>

ChatIdle ==
    /\ api_key = TRUE
    /\ tools = [given |-> FALSE, names |-> {}]
    /\ max_tool_rounds = 0
    /\ chat_pc = "idle"
    /\ messages = <<>>
    /\ response = [stop_reason |-> "none", content |-> <<>>]
    /\ rounds = 0
    /\ tool_use_blocks = <<>>
    /\ tool_results = <<>>
    /\ chat_ret = <<>>
    /\ chat_err = "none"
    /\ sends = <<>>
    /\ responses = <<>>
    /\ invocations = <<>>

QaIdle ==
    /\ max_qa_attempts = 0
    /\ qa_pc = "idle"
    /\ article = NoText
    /\ attempt = 0
    /\ qa_passed = FALSE
    /\ qa_ret = <<>>
    /\ qa_log = <<>>
    /\ writer_calls = <<>>
    /\ review_inputs = <<>>
    /\ review_outputs = <<>>

FlowIdle ==
    /\ briefs = <<>>
    /\ brief_files = {}
    /\ flow_pc = "idle"
    /\ sorted_briefs = <<>>
    /\ brief_i = 0
    /\ flow_attempt = 0
    /\ brief_content = NoText
    /\ inputs = [topic_name |-> "", primary_keyword |-> "", brief_content |-> NoText]
    /\ result_text = NoText
    /\ articles = <<>>
    /\ current_phase = 0
    /\ index_written = FALSE
    /\ run_phase = "setup"
    /\ run_error = "None"
    /\ run_progress = [phase |-> 0, current_task |-> <<>>, percent |-> 0,
                       topics_total |-> 0, topics_done |-> 0]
    /\ run_log = <<>>

PipeIdle ==
    /\ topic_file = [state |-> "absent", rows |-> <<>>]
    /\ topic_entries = <<>>
    /\ topic_edit = [edited |-> FALSE, table |-> <<>>]
    /\ sorted_topics = <<>>
    /\ topic_i = 0
    /\ csv_edited = FALSE
    /\ parse_report = <<>>
    /\ approved = <<>>

SortIdle ==
    /\ sort_site = "brief"
    /\ sort_input = <<>>
    /\ sort_pc = "idle"
    /\ sorted_entries = <<>>
    /\ processed = <<>>

LogIdle ==
    /\ log_queue = <<>>
    /\ emitted = <<>>
    /\ current_run_id = "None"
    /\ session_logs = <<>>
    /\ drain_pc = "idle"
    /\ delivered = <<>>

\* the threads that call the RunManager: the dashboard script, and a second
\* thread for the calls made concurrently with it
Callers == {"script", "worker"}

RegIdle ==
    /\ runs_dict = <<>>
    /\ heap = <<>>
    /\ callers = [c \in Callers |-> [pc |-> "idle", run |-> 0]]
    /\ returned = {}
    /\ last_get = [run_id |-> "None", run |-> 0]
    /\ last_list = <<>>

AppIdle == PipeIdle /\ SortIdle /\ LogIdle /\ RegIdle

ConvIdle ==
    /\ gemini_decls = <<>>
    /\ anthropic_tools = <<>>
    /\ conv_pc = "idle"

CsvIdle ==
    /\ csv_values = <<>>
    /\ csv_content = <<>>
    /\ csv_file = [exists |-> FALSE, lines |-> <<>>]
    /\ writer_result = <<>>
    /\ csv_entries = <<>>
    /\ csv_report = <<>>
    /\ csv_briefs = <<>>
    /\ csv_pc = "idle"

PathIdle ==
    /\ session_kind = <<>>
    /\ seed_topic = <<>>
    /\ output_dir = <<>>
    /\ session_pc = <<>>
    /\ session_i = <<>>
    /\ files_written = <<>>

ThrIdle ==
    /\ thread_pc = <<>>
    /\ script_pc = "idle"
    /\ shown_error = "nothing"
    /\ shown_button = "none"
    /\ click = "none"

RetIdle == brief_phase_ret = "None"

ExtIdle == ConvIdle /\ CsvIdle /\ PathIdle /\ ThrIdle /\ RetIdle

\* -------------------------------------------------------- string helpers
RECURSIVE Join(_, _)
\* sep.join(parts) for a sequence of strings
Join(sep, parts) ==
    IF parts = <<>> THEN <<>>
    ELSE IF Len(parts) = 1 THEN parts[1]
    ELSE parts[1] \o sep \o Join(sep, Tail(parts))

RECURSIVE SelectSeqOf(_, _)
SelectSeqOf(s, keep) ==
    IF s = <<>> THEN <<>>
    ELSE (IF s[1] \in keep THEN <<s[1]>> ELSE <<>>) \o SelectSeqOf(Tail(s), keep)

Range(s) == {s[i] : i \in DOMAIN s}

\* ------------------------------------------------- the provider (external)
ToolNames == {"search", "file_writer"}

T1 == <<"done">>
T2 == <<"more">>
EmptyText == <<>>

TextBlock(t) == [type |-> "text", text |-> t]
ToolUseBlock(id, name, input) ==
    [type |-> "tool_use", id |-> id, name |-> name, input |-> input]

\* The contents a response to the n-th send may carry; tool_use ids are
\* unique per response and per position.
Contents(n) ==
    { <<ToolUseBlock(<<n, 1>>, "search", "{query: x}")>>,
      <<TextBlock(T2), ToolUseBlock(<<n, 2>>, "file_writer", "None"),
        ToolUseBlock(<<n, 3>>, "search", "{}")>>,
      <<ToolUseBlock(<<n, 1>>, "ghost_tool", "{query: x}"),
        ToolUseBlock(<<n, 2>>, "search", "{query: x}")>>,
      <<TextBlock(T1)>> }

ProviderResponses(n) ==
    [stop_reason : {"tool_use"}, content : Contents(n)]
    \cup { [stop_reason |-> "end_turn", content |-> <<TextBlock(T1)>>],
           [stop_reason |-> "end_turn",
            content |-> <<TextBlock(EmptyText), TextBlock(T1), TextBlock(T2)>>],
           [stop_reason |-> "end_turn", content |-> <<>>],
           [stop_reason |-> "max_tokens",
            content |-> <<TextBlock(T2),
                          ToolUseBlock(<<n, 2>>, "search", "{query: x}")>>] }

NoResponse == [stop_reason |-> "none", content |-> <<>>]

\* ---------------------------------------------------- the tools (external)
\* What one invocation of a registered tool does: return a value or raise.
ToolOutcomes ==
    { [kind |-> "str", text |-> <<"ok">>],
      [kind |-> "none", text |-> <<>>],
      [kind |-> "raise", text |-> <<"boom">>] }

\* str(result)
Str(v) == IF v.kind = "none" THEN <<"None">> ELSE v.text

\* ------------------------------------------------------------- chat()
Registries ==
    {[given |-> FALSE, names |-> {}]}
    \cup [given : {TRUE}, names : SUBSET ToolNames]

\* `tools and func_name in tools`
Registered(reg, func_name) ==
    /\ reg.given
    /\ reg.names # {}
    /\ func_name \in reg.names

\* variant: the request's arguments are dropped
FuncArgs_Dropped(input) == "{}"

\* `tool_block.input or {}`
FuncArgs(input) == IF input \in {"None", "{}"} THEN "{}" ELSE input

\* [block for block in response.content if block.type == "tool_use"]
ToolUseBlocks(resp) ==
    SelectSeqOf(resp.content, {b \in Range(resp.content) : b.type = "tool_use"})

\* variant: the text parts are collected from every response of the call
FinalText_AllResponses(resp) ==
    LET all == IF responses = <<>> THEN resp.content
               ELSE Join(<<>>, [i \in DOMAIN responses |-> responses[i].content])
        kept == SelectSeqOf(all, {b \in Range(all) : b.type = "text" /\ b.text # <<>>})
    IN  Join(<<"\n">>, [i \in DOMAIN kept |-> kept[i].text])

\* "\n".join(block.text for block in content if hasattr(block, "text") and block.text)
FinalText(resp) ==
    LET kept == SelectSeqOf(resp.content,
                    {b \in Range(resp.content) : b.type = "text" /\ b.text # <<>>})
    IN  Join(<<"\n">>, [i \in DOMAIN kept |-> kept[i].text])

ErrorResult(func_name, e) == <<"Error calling ", func_name, ": ">> \o e
UnknownResult(func_name) == <<"Unknown function: ", func_name>>

ToolResult(id, result_str) ==
    [type |-> "tool_result", tool_use_id |-> id, content |-> result_str]

UserPrompt == <<"prompt">>

InitChat ==
    /\ api_key \in BOOLEAN
    /\ tools \in Registries
    /\ max_tool_rounds \in 0..MaxRounds
    /\ chat_pc = "start"
    /\ messages = <<>>
    /\ response = NoResponse
    /\ rounds = 0
    /\ tool_use_blocks = <<>>
    /\ tool_results = <<>>
    /\ chat_ret = <<>>
    /\ chat_err = "none"
    /\ sends = <<>>
    /\ responses = <<>>
    /\ invocations = <<>>
    /\ driver = "chat"
    /\ QaIdle
    /\ FlowIdle
    /\ AppIdle
    /\ ExtIdle

\* _get_client() raises ValueError when the key is missing
ChatNoKey ==
    /\ chat_pc = "start"
    /\ ~api_key
    /\ chat_pc' = "raised"
    /\ chat_err' = "ValueError"
    /\ UNCHANGED <<api_key, tools, max_tool_rounds, messages, response, rounds,
                   tool_use_blocks, tool_results, chat_ret, sends, responses,
                   invocations>>
    /\ UNCHANGED <<driver, qaVars, flowVars, appVars, extVars>>

\* the initial request, answered
InitialSend ==
    /\ chat_pc = "start"
    /\ api_key
    /\ messages' = <<[role |-> "user", content |-> UserPrompt]>>
    /\ sends' = Append(sends, messages')
    /\ \E resp \in ProviderResponses(Len(sends) + 1) :
          /\ response' = resp
          /\ responses' = Append(responses, resp)
    /\ rounds' = 0
    /\ chat_pc' = "loop"
    /\ UNCHANGED <<api_key, tools, max_tool_rounds, tool_use_blocks,
                   tool_results, chat_ret, chat_err, invocations>>
    /\ UNCHANGED <<driver, qaVars, flowVars, appVars, extVars>>

\* the initial request, failing in the provider
InitialSendRaises ==
    /\ chat_pc = "start"
    /\ api_key
    /\ messages' = <<[role |-> "user", content |-> UserPrompt]>>
    /\ sends' = Append(sends, messages')
    /\ chat_pc' = "raised"
    /\ chat_err' = "ProviderError"
    /\ UNCHANGED <<api_key, tools, max_tool_rounds, response, rounds,
                   tool_use_blocks, tool_results, chat_ret, responses,
                   invocations>>
    /\ UNCHANGED <<driver, qaVars, flowVars, appVars, extVars>>

\* variant: a cap of zero is read as "not given" and replaced by one round
ContinueLoop_ZeroMeansOne(rds, max, resp) ==
    /\ rds < (IF max = 0 THEN 1 ELSE max)
    /\ resp.stop_reason = "tool_use"
    /\ ToolUseBlocks(resp) # <<>>

\* variant: the cap is tested with <= instead of <
ContinueLoop_OffByOne(rds, max, resp) ==
    /\ rds <= max
    /\ resp.stop_reason = "tool_use"
    /\ ToolUseBlocks(resp) # <<>>

\* `rounds < max_tool_rounds and response.stop_reason == "tool_use"`, then
\* `if not tool_use_blocks: break`
ContinueLoop(rds, max, resp) ==
    /\ rds < max
    /\ resp.stop_reason = "tool_use"
    /\ ToolUseBlocks(resp) # <<>>

\* the while test, the collection of the tool_use blocks and the assistant
\* turn; or the exit of the loop and the extraction of the final text
LoopTest ==
    /\ chat_pc = "loop"
    /\ IF ContinueLoop(rounds, max_tool_rounds, response)
       THEN /\ tool_use_blocks' = ToolUseBlocks(response)
            /\ messages' = Append(messages,
                               [role |-> "assistant", content |-> response.content])
            /\ tool_results' = <<>>
            /\ chat_pc' = "tools"
            /\ UNCHANGED chat_ret
       ELSE /\ chat_ret' = FinalText(response)
            /\ chat_pc' = "done"
            /\ UNCHANGED <<tool_use_blocks, messages, tool_results>>
    /\ UNCHANGED <<api_key, tools, max_tool_rounds, response, rounds, chat_err,
                   sends, responses, invocations>>
    /\ UNCHANGED <<driver, qaVars, flowVars, appVars, extVars>>

\* variant: no try/except around the call, a raising tool leaves chat
InvokeTool_Propagates ==
    /\ chat_pc = "tools"
    /\ Len(tool_results) < Len(tool_use_blocks)
    /\ LET tool_block == tool_use_blocks[Len(tool_results) + 1]
           func_name == tool_block.name
           func_args == FuncArgs(tool_block.input)
       IN  /\ Registered(tools, func_name)
           /\ \E out \in ToolOutcomes :
                 /\ invocations' = Append(invocations,
                        [name |-> func_name, args |-> func_args,
                         id |-> tool_block.id, raised |-> out.kind = "raise"])
                 /\ IF out.kind = "raise"
                    THEN /\ chat_pc' = "raised"
                         /\ chat_err' = "ToolError"
                         /\ UNCHANGED tool_results
                    ELSE /\ tool_results' = Append(tool_results,
                                ToolResult(tool_block.id, Str(out)))
                         /\ UNCHANGED <<chat_pc, chat_err>>
    /\ UNCHANGED <<api_key, tools, max_tool_rounds, messages, response,
                   rounds, tool_use_blocks, chat_ret, sends, responses>>
    /\ UNCHANGED <<driver, qaVars, flowVars, appVars, extVars>>

\* one iteration of `for tool_block in tool_use_blocks`, registered tool
InvokeTool ==
    /\ chat_pc = "tools"
    /\ Len(tool_results) < Len(tool_use_blocks)
    /\ LET tool_block == tool_use_blocks[Len(tool_results) + 1]
           func_name == tool_block.name
           func_args == FuncArgs(tool_block.input)
       IN  /\ Registered(tools, func_name)
           /\ \E out \in ToolOutcomes :
                 /\ invocations' = Append(invocations,
                        [name |-> func_name, args |-> func_args,
                         id |-> tool_block.id, raised |-> out.kind = "raise"])
                 /\ tool_results' = Append(tool_results,
                        ToolResult(tool_block.id,
                            IF out.kind = "raise"
                            THEN ErrorResult(func_name, out.text)
                            ELSE Str(out)))
    /\ UNCHANGED <<api_key, tools, max_tool_rounds, chat_pc, messages, response,
                   rounds, tool_use_blocks, chat_ret, chat_err, sends, responses>>
    /\ UNCHANGED <<driver, qaVars, flowVars, appVars, extVars>>

\* variant: tools[func_name] without the membership test
UnknownTool_KeyError ==
    /\ chat_pc = "tools"
    /\ Len(tool_results) < Len(tool_use_blocks)
    /\ ~Registered(tools, tool_use_blocks[Len(tool_results) + 1].name)
    /\ chat_pc' = "raised"
    /\ chat_err' = "KeyError"
    /\ UNCHANGED <<api_key, tools, max_tool_rounds, messages, response,
                   rounds, tool_use_blocks, tool_results, chat_ret, sends,
                   responses, invocations>>
    /\ UNCHANGED <<driver, qaVars, flowVars, appVars, extVars>>

\* one iteration of `for tool_block in tool_use_blocks`, name not registered
UnknownTool ==
    /\ chat_pc = "tools"
    /\ Len(tool_results) < Len(tool_use_blocks)
    /\ LET tool_block == tool_use_blocks[Len(tool_results) + 1]
           func_name == tool_block.name
       IN  /\ ~Registered(tools, func_name)
           /\ tool_results' = Append(tool_results,
                  ToolResult(tool_block.id, UnknownResult(func_name)))
    /\ UNCHANGED <<api_key, tools, max_tool_rounds, chat_pc, messages, response,
                   rounds, tool_use_blocks, chat_ret, chat_err, sends, responses,
                   invocations>>
    /\ UNCHANGED <<driver, qaVars, flowVars, appVars, extVars>>

\* variant: the next request is sent as soon as one result is in
SendToolResults_Early ==
    /\ chat_pc = "tools"
    /\ Len(tool_results) >= 1
    /\ messages' = Append(messages, [role |-> "user", content |-> tool_results])
    /\ sends' = Append(sends, messages')
    /\ \E resp \in ProviderResponses(Len(sends) + 1) :
          /\ response' = resp
          /\ responses' = Append(responses, resp)
    /\ rounds' = rounds + 1
    /\ chat_pc' = "loop"
    /\ UNCHANGED <<api_key, tools, max_tool_rounds, tool_use_blocks,
                   tool_results, chat_ret, chat_err, invocations>>
    /\ UNCHANGED <<driver, qaVars, flowVars, appVars, extVars>>

\* the results turn and the next request, answered
SendToolResults ==
    /\ chat_pc = "tools"
    /\ Len(tool_results) = Len(tool_use_blocks)
    /\ messages' = Append(messages, [role |-> "user", content |-> tool_results])
    /\ sends' = Append(sends, messages')
    /\ \E resp \in ProviderResponses(Len(sends) + 1) :
          /\ response' = resp
          /\ responses' = Append(responses, resp)
    /\ rounds' = rounds + 1
    /\ chat_pc' = "loop"
    /\ UNCHANGED <<api_key, tools, max_tool_rounds, tool_use_blocks,
                   tool_results, chat_ret, chat_err, invocations>>
    /\ UNCHANGED <<driver, qaVars, flowVars, appVars, extVars>>

\* variant: the provider error is caught and an empty answer returned
SendToolResultsRaises_Swallowed ==
    /\ chat_pc = "tools"
    /\ Len(tool_results) = Len(tool_use_blocks)
    /\ messages' = Append(messages, [role |-> "user", content |-> tool_results])
    /\ sends' = Append(sends, messages')
    /\ chat_pc' = "done"
    /\ chat_ret' = <<>>
    /\ UNCHANGED <<api_key, tools, max_tool_rounds, response, rounds,
                   tool_use_blocks, tool_results, chat_err, responses,
                   invocations>>
    /\ UNCHANGED <<driver, qaVars, flowVars, appVars, extVars>>

\* the results turn and the next request, failing in the provider
SendToolResultsRaises ==
    /\ chat_pc = "tools"
    /\ Len(tool_results) = Len(tool_use_blocks)
    /\ messages' = Append(messages, [role |-> "user", content |-> tool_results])
    /\ sends' = Append(sends, messages')
    /\ chat_pc' = "raised"
    /\ chat_err' = "ProviderError"
    /\ UNCHANGED <<api_key, tools, max_tool_rounds, response, rounds,
                   tool_use_blocks, tool_results, chat_ret, responses,
                   invocations>>
    /\ UNCHANGED <<driver, qaVars, flowVars, appVars, extVars>>

NextChat ==
    \/ ChatNoKey
    \/ InitialSend
    \/ InitialSendRaises
    \/ LoopTest
    \/ InvokeTool
    \/ UnknownTool
    \/ SendToolResults
    \/ SendToolResultsRaises

SpecChat == InitChat /\ [][NextChat]_vars

\* ============================================== run_production() and the flows

\* ------------------------------------------------------------------ bounds
MaxAttempts == 3

\* --------------------------------------------------- character strings
Lowercase ==
    <<"a", "b", "c", "d", "e", "f", "g", "h", "i", "j", "k", "l", "m", "n",
      "o", "p", "q", "r", "s", "t", "u", "v", "w", "x", "y", "z">>

Uppercase ==
    <<"A", "B", "C", "D", "E", "F", "G", "H", "I", "J", "K", "L", "M", "N",
      "O", "P", "Q", "R", "S", "T", "U", "V", "W", "X", "Y", "Z">>

\* str.upper(), one character
UpperChar(c) ==
    IF \E i \in DOMAIN Lowercase : Lowercase[i] = c
    THEN Uppercase[CHOOSE i \in DOMAIN Lowercase : Lowercase[i] = c]
    ELSE c

\* str.upper()
Upper(str) == [i \in DOMAIN str |-> UpperChar(str[i])]

\* `sub in str`
Contains(str, sub) ==
    \E i \in 0..(Len(str) - Len(sub)) : SubSeq(str, i + 1, i + Len(sub)) = sub

QA_STATUS_PASSED ==
    <<"Q", "A", " ", "S", "t", "a", "t", "u", "s", ":", " ", "P", "A", "S",
      "S", "E", "D">>

PASSED ==
    <<"P", "A", "S", "S", "E", "D">>

\* variant: only the exact status marker counts
IsPassed_MarkerOnly(result) == Contains(result, QA_STATUS_PASSED)

\* `"QA Status: PASSED" in result or "PASSED" in result.upper()`
IsPassed(result) ==
    \/ Contains(result, QA_STATUS_PASSED)
    \/ Contains(Upper(result), PASSED)

\* ------------------------------------- what the model calls return (external)
ReviewPassed ==
    <<"R", "e", "p", "o", "r", "t", " ", "o", "k", ".", " ", "Q", "A", " ",
      "S", "t", "a", "t", "u", "s", ":", " ", "P", "A", "S", "S", "E", "D">>

ReviewFlagged ==
    <<"Q", "A", " ", "S", "t", "a", "t", "u", "s", ":", " ", "F", "L", "A",
      "G", "G", "E", "D">>

ReviewFlaggedEcho ==
    <<"Q", "A", " ", "S", "t", "a", "t", "u", "s", ":", " ", "F", "L", "A",
      "G", "G", "E", "D", " ", "(", "p", "h", "r", "a", "s", "e", "s", ":",
      " ", "P", "a", "s", "s", "e", "d", ")">>

ReviewMixedCase ==
    <<"a", "l", "l", " ", "c", "h", "e", "c", "k", "s", " ", "p", "A", "s",
      "S", "e", "D">>

ReviewNearMiss ==
    <<"P", "A", "S", "S", " ", "E", "D", ",", " ", "p", "a", "s", " ", "s",
      "e", "d">>

DraftText ==
    <<"d", "r", "a", "f", "t">>

DraftPassed ==
    <<"P", "A", "S", "S", "E", "D", " ", "d", "r", "a", "f", "t">>

\* the texts a writer call may return
WriterTexts == {DraftText, DraftPassed, NoText}

\* the texts a review call may return
ReviewTexts == {ReviewPassed, ReviewFlagged, ReviewFlaggedEcho, ReviewMixedCase,
                ReviewNearMiss, NoText}

\* -------------------------------------------------------- run_production()
\* variant: the pass returns the text that was reviewed, not the review
PassReturn_Draft(result, art, att) == <<art, TRUE, att>>

\* `return result, True, attempt`
PassReturn(result, art, att) == <<result, TRUE, att>>

\* variant: the count of the attempts made is one short
FlaggedReturn_OneShort(art, max) == <<art, FALSE, max - 1>>

\* `return article, False, max_qa_attempts`
FlaggedReturn(art, max) == <<art, FALSE, max>>

\* variant: the review's output is not carried forward
NextArticle_KeepsDraft(result, art) == art

\* `article = result`
NextArticle(result, art) == result

InitRunProduction ==
    /\ max_qa_attempts \in 0..MaxAttempts
    /\ qa_pc = "write"
    /\ article = NoText
    /\ attempt = 0
    /\ qa_passed = FALSE
    /\ qa_ret = <<>>
    /\ qa_log = <<>>
    /\ writer_calls = <<>>
    /\ review_inputs = <<>>
    /\ review_outputs = <<>>

\* Step 1: the writer call returns; with an empty range(1, max_qa_attempts + 1)
\* the function falls through to its last two lines
WriteArticle ==
    /\ driver = "run_production"
    /\ qa_pc = "write"
    /\ \E text \in WriterTexts :
          /\ article' = text
          /\ writer_calls' = Append(writer_calls, [raised |-> FALSE, text |-> text])
          /\ IF 1 <= max_qa_attempts
             THEN /\ qa_pc' = "review"
                  /\ attempt' = 1
                  /\ qa_ret' = qa_ret
                  /\ qa_log' = qa_log \o <<<<"Writer Agent", "writing", 0>>,
                                           <<"QA Agent", "attempt", 1>>>>
             ELSE /\ qa_pc' = "done"
                  /\ attempt' = attempt
                  /\ qa_ret' = FlaggedReturn(text, max_qa_attempts)
                  /\ qa_log' = qa_log \o <<<<"Writer Agent", "writing", 0>>,
                                           <<"QA Agent", "flagged", max_qa_attempts>>>>
    /\ UNCHANGED <<max_qa_attempts, qa_passed, review_inputs, review_outputs>>
    /\ UNCHANGED <<chatVars, driver, flowVars, appVars, extVars>>

\* Step 1: the writer call raises
WriteArticleRaises ==
    /\ driver = "run_production"
    /\ qa_pc = "write"
    /\ writer_calls' = Append(writer_calls, [raised |-> TRUE, text |-> NoText])
    /\ qa_pc' = "raised"
    /\ qa_log' = Append(qa_log, <<"Writer Agent", "writing", 0>>)
    /\ UNCHANGED <<max_qa_attempts, article, attempt, qa_passed, qa_ret,
                   review_inputs, review_outputs>>
    /\ UNCHANGED <<chatVars, driver, flowVars, appVars, extVars>>

\* Step 2: one iteration of the attempt loop, the review call returning
ReviewArticle ==
    /\ driver = "run_production"
    /\ qa_pc = "review"
    /\ \E result \in ReviewTexts :
          /\ review_inputs' = Append(review_inputs, article)
          /\ review_outputs' = Append(review_outputs, result)
          /\ IF IsPassed(result)
             THEN /\ qa_passed' = TRUE
                  /\ qa_ret' = PassReturn(result, article, attempt)
                  /\ qa_pc' = "done"
                  /\ qa_log' = Append(qa_log, <<"QA Agent", "passed", attempt>>)
                  /\ UNCHANGED <<article, attempt>>
             ELSE /\ article' = NextArticle(result, article)
                  /\ qa_passed' = qa_passed
                  /\ IF attempt < max_qa_attempts
                     THEN /\ attempt' = attempt + 1
                          /\ qa_pc' = "review"
                          /\ qa_ret' = qa_ret
                          /\ qa_log' = qa_log \o
                                <<<<"QA Agent", "retrying", attempt>>,
                                  <<"QA Agent", "attempt", attempt + 1>>>>
                     ELSE /\ attempt' = attempt
                          /\ qa_pc' = "done"
                          /\ qa_ret' = FlaggedReturn(article', max_qa_attempts)
                          /\ qa_log' = qa_log \o
                                <<<<"QA Agent", "finalizing", attempt>>,
                                  <<"QA Agent", "flagged", max_qa_attempts>>>>
    /\ UNCHANGED max_qa_attempts
    /\ UNCHANGED writer_calls
    /\ UNCHANGED <<chatVars, driver, flowVars, appVars, extVars>>

\* Step 2: the review call raises
ReviewArticleRaises ==
    /\ driver = "run_production"
    /\ qa_pc = "review"
    /\ review_inputs' = Append(review_inputs, article)
    /\ qa_pc' = "raised"
    /\ UNCHANGED <<max_qa_attempts, article, attempt, qa_passed, qa_ret, qa_log,
                   writer_calls, review_outputs>>
    /\ UNCHANGED <<chatVars, driver, flowVars, appVars, extVars>>

\* --------------------------------------- production phase of the two flows
MaxBriefs == 2

\* `max_attempts = 3`
FlowMaxAttempts == 3

BriefPool ==
    { [topic_name |-> "A", filename |-> "A.md", priority_score |-> 3],
      [topic_name |-> "B", filename |-> "B.md", priority_score |-> 9],
      [topic_name |-> "C", filename |-> "C.md", priority_score |-> 9] }

BriefLists == UNION { [1..n -> BriefPool] : n \in 0..MaxBriefs }

\* the place of x in a list sorted by non-increasing score: after every entry
\* whose score is at least its own
RECURSIVE InsertByPriority_BeforeEqual(_, _)
InsertByPriority_BeforeEqual(x, sorted) ==
    IF sorted = <<>> THEN <<x>>
    ELSE IF sorted[1].priority_score > x.priority_score
         THEN <<sorted[1]>> \o InsertByPriority_BeforeEqual(x, Tail(sorted))
         ELSE <<x>> \o sorted

RECURSIVE InsertByPriority(_, _)
InsertByPriority(x, sorted) ==
    IF sorted = <<>> THEN <<x>>
    ELSE IF sorted[1].priority_score >= x.priority_score
         THEN <<sorted[1]>> \o InsertByPriority(x, Tail(sorted))
         ELSE <<x>> \o sorted

\* sorted(briefs, key=lambda b: b.priority_score, reverse=True): stable
RECURSIVE SortedByPriority(_)
SortedByPriority(list) ==
    IF list = <<>> THEN <<>>
    ELSE InsertByPriority(list[Len(list)], SortedByPriority(SubSeq(list, 1, Len(list) - 1)))

Digits == <<"1", "2", "3", "4", "5", "6", "7", "8", "9">>

\* str(n) for a one-digit positive n
StrInt(n) == <<Digits[n]>>

NotesHead ==
    <<"\n", "\n", "-", "-", "-", " ", "R", "E", "V", "I", "S", "I", "O", "N",
      " ", "N", "O", "T", "E", "S", " ", "(", "A", "t", "t", "e", "m", "p",
      "t", " ">>

NotesTail ==
    <<")", " ", "-", "-", "-", "\n", "T", "h", "e", " ", "p", "r", "e", "v",
      "i", "o", "u", "s", " ", "v", "e", "r", "s", "i", "o", "n", " ", "h",
      "a", "d", " ", "Q", "A", " ", "i", "s", "s", "u", "e", "s", ".", " ",
      "P", "l", "e", "a", "s", "e", " ", "f", "i", "x", ":", "\n">>

\* variant: the notes are added to the content the last attempt was given
RevisionNotes_Accumulating(content, att, text) ==
    inputs.brief_content \o NotesHead \o StrInt(att) \o NotesTail \o text

\* brief_content + f"\n\n--- REVISION NOTES (Attempt {attempt}) ---\n"
\*                 f"The previous version had QA issues. Please fix:\n{result_text}"
RevisionNotes(content, att, text) ==
    content \o NotesHead \o StrInt(att) \o NotesTail \o text

BriefFor ==
    <<"B", "r", "i", "e", "f", " ", "f", "o", "r", " ">>

NotFoundCli ==
    <<" ", "(", "f", "i", "l", "e", " ", "n", "o", "t", " ", "f", "o", "u",
      "n", "d", ",", " ", "u", "s", "e", " ", "t", "o", "p", "i", "c", " ",
      "d", "a", "t", "a", ")">>

NotFoundWeb ==
    <<" ", "(", "f", "i", "l", "e", " ", "n", "o", "t", " ", "f", "o", "u",
      "n", "d", ")">>

\* what the brief file holds when it exists
FileContent(brief) == <<"#", " ", brief.topic_name>>

\* the brief content read in the CLI flow
ReadBriefCli(brief, files) ==
    IF brief.filename \in files THEN FileContent(brief)
    ELSE BriefFor \o <<brief.topic_name>> \o NotFoundCli

\* the brief content read in the web flow
ReadBriefWeb(brief, files) ==
    IF brief.filename \in files THEN FileContent(brief)
    ELSE BriefFor \o <<brief.topic_name>> \o NotFoundWeb

\* next((t for t in topic_entries if t.topic_name == brief.topic_name), None),
\* as the list of what the generator yields first: one entry or none
TopicEntryFor(entries, brief) ==
    LET matching == SelectSeq(entries, LAMBDA t : t.topic_name = brief.topic_name)
    IN  IF matching = <<>> THEN <<>> ELSE <<matching[1]>>

\* `topic_entry.primary_keyword if topic_entry else brief.topic_name`; the
\* other fields taken from the topic entry (secondary_keywords, search_intent,
\* target_entities, internal_link_targets) are read from the same object
PrimaryKeywordFor(entries, brief) ==
    LET topic_entry == TopicEntryFor(entries, brief)
    IN  IF topic_entry = <<>> THEN brief.topic_name ELSE topic_entry[1].primary_keyword

\* variant: the attempt recorded is the next one
NewArticle_NextAttempt(brief, passed, att) ==
    [topic_name |-> brief.topic_name,
     filename |-> <<brief.topic_name, " - ", "today", ".md">>,
     word_count |-> 0,
     qa_status |-> IF passed THEN "PASSED" ELSE "FLAGGED",
     qa_attempts |-> att + 1,
     flagged_items |-> <<>>]

\* variant: every article is recorded as passed
NewArticle_AlwaysPassed(brief, passed, att) ==
    [topic_name |-> brief.topic_name,
     filename |-> <<brief.topic_name, " - ", "today", ".md">>,
     word_count |-> 0,
     qa_status |-> "PASSED",
     qa_attempts |-> att,
     flagged_items |-> <<>>]

\* Article(topic_name=..., filename=..., qa_status=..., qa_attempts=attempt)
NewArticle(brief, passed, att) ==
    [topic_name |-> brief.topic_name,
     filename |-> <<brief.topic_name, " - ", "today", ".md">>,
     word_count |-> 0,
     qa_status |-> IF passed THEN "PASSED" ELSE "FLAGGED",
     qa_attempts |-> att,
     flagged_items |-> <<>>]

\* int((i / total) * 100)
Percent(i, total) == (i * 100) \div total

\* the texts a crew kickoff may return
KickoffTexts == {ReviewPassed, ReviewFlagged, ReviewFlaggedEcho, ReviewNearMiss}

InitFlow ==
    /\ briefs \in BriefLists
    /\ brief_files \in {{}, {b.filename : b \in BriefPool}}
    /\ flow_pc = "start"
    /\ sorted_briefs = <<>>
    /\ brief_i = 0
    /\ flow_attempt = 0
    /\ brief_content = NoText
    /\ inputs = [topic_name |-> "", primary_keyword |-> "", brief_content |-> NoText]
    /\ result_text = NoText
    /\ articles = <<>>
    /\ index_written = FALSE
    /\ run_error = "None"
    /\ run_log = <<>>
    /\ IF driver = "web"
       THEN /\ current_phase = 0
            /\ run_phase = "phase2_review"
            /\ run_progress = [phase |-> 2, current_task |-> <<"Briefs ready for review">>,
                               percent |-> 100, topics_total |-> Len(briefs),
                               topics_done |-> Len(briefs)]
       ELSE /\ current_phase = 2
            /\ run_phase = "setup"
            /\ run_progress = [phase |-> 0, current_task |-> <<>>, percent |-> 0,
                               topics_total |-> 0, topics_done |-> 0]

\* ---- CLI flow: ContentFlow.run_production_phase

\* up to the first kickoff; with no briefs, to the end of the phase
CliProductionBegin ==
    /\ driver = "cli"
    /\ flow_pc = "start"
    /\ current_phase' = 3
    /\ sorted_briefs' = SortedByPriority(briefs)
    /\ IF sorted_briefs' = <<>>
       THEN /\ index_written' = TRUE
            /\ flow_pc' = "done"
            /\ UNCHANGED <<brief_i, flow_attempt, brief_content, inputs>>
       ELSE /\ brief_i' = 1
            /\ brief_content' = ReadBriefCli(sorted_briefs'[1], brief_files)
            /\ inputs' = [topic_name |-> sorted_briefs'[1].topic_name,
                          primary_keyword |->
                              PrimaryKeywordFor(topic_entries, sorted_briefs'[1]),
                          brief_content |-> brief_content']
            /\ flow_attempt' = 1
            /\ flow_pc' = "attempt"
            /\ UNCHANGED index_written
    /\ UNCHANGED <<briefs, brief_files, result_text, articles, run_phase, run_error,
                   run_progress, run_log>>
    /\ UNCHANGED <<chatVars, driver, qaVars, appVars, extVars>>

\* one kickoff that returns, and what follows it up to the next kickoff
CliAttempt ==
    /\ driver = "cli"
    /\ flow_pc = "attempt"
    /\ \E text \in KickoffTexts :
          LET brief == sorted_briefs[brief_i]
              passed == IsPassed(text)
              retry == ~passed /\ flow_attempt < FlowMaxAttempts
          IN  /\ result_text' = text
              /\ IF retry
                 THEN /\ inputs' = [inputs EXCEPT !.brief_content =
                                       RevisionNotes(brief_content, flow_attempt, text)]
                      /\ flow_attempt' = flow_attempt + 1
                      /\ UNCHANGED <<articles, brief_i, brief_content, flow_pc,
                                     index_written>>
                 ELSE /\ articles' = Append(articles,
                                         NewArticle(brief, passed, flow_attempt))
                      /\ IF brief_i < Len(sorted_briefs)
                         THEN /\ brief_i' = brief_i + 1
                              /\ brief_content' =
                                    ReadBriefCli(sorted_briefs[brief_i + 1], brief_files)
                              /\ inputs' =
                                    [topic_name |-> sorted_briefs[brief_i + 1].topic_name,
                                     primary_keyword |->
                                         PrimaryKeywordFor(topic_entries,
                                                           sorted_briefs[brief_i + 1]),
                                     brief_content |-> brief_content']
                              /\ flow_attempt' = 1
                              /\ UNCHANGED <<flow_pc, index_written>>
                         ELSE /\ index_written' = TRUE
                              /\ flow_pc' = "done"
                              /\ UNCHANGED <<brief_i, brief_content, inputs,
                                             flow_attempt>>
    /\ UNCHANGED <<briefs, brief_files, sorted_briefs, current_phase, run_phase,
                   run_error, run_progress, run_log>>
    /\ UNCHANGED <<chatVars, driver, qaVars, appVars, extVars>>

\* one kickoff that raises: the exception leaves run_production_phase
CliAttemptRaises ==
    /\ driver = "cli"
    /\ flow_pc = "attempt"
    /\ flow_pc' = "failed"
    /\ UNCHANGED <<briefs, brief_files, sorted_briefs, brief_i, flow_attempt,
                   brief_content, inputs, result_text, articles, current_phase,
                   index_written, run_phase, run_error, run_progress, run_log>>
    /\ UNCHANGED <<chatVars, driver, qaVars, appVars, extVars>>

\* ---- web flow: RunManager.start_phase3

\* the caller's part of start_phase3, up to the start of the thread
WebStartPhase3 ==
    /\ driver = "web"
    /\ flow_pc = "start"
    /\ run_phase' = "phase3_running"
    /\ run_progress' = [run_progress EXCEPT !.phase = 3,
                                            !.current_task = <<"Writing articles">>,
                                            !.percent = 0,
                                            !.topics_done = 0]
    /\ flow_pc' = "begin"
    /\ UNCHANGED <<briefs, brief_files, sorted_briefs, brief_i, flow_attempt,
                   brief_content, inputs, result_text, articles, current_phase,
                   index_written, run_error, run_log>>
    /\ UNCHANGED <<chatVars, driver, qaVars, appVars, extVars>>

\* the thread, up to the first kickoff; with no briefs, to its end
WebPhase3Begin ==
    /\ driver = "web"
    /\ flow_pc = "begin"
    /\ sorted_briefs' = SortedByPriority(briefs)
    /\ LET total == Len(sorted_briefs')
       IN  IF total = 0
           THEN /\ run_progress' = [run_progress EXCEPT
                                       !.topics_total = 0,
                                       !.percent = 100,
                                       !.current_task = <<"Production complete">>]
                /\ run_phase' = "complete"
                /\ run_log' = run_log \o <<<<"System", "phase 3 started", "info">>,
                                           <<"System", "pipeline complete", "success">>>>
                /\ flow_pc' = "done"
                /\ UNCHANGED <<brief_i, flow_attempt, brief_content, inputs>>
           ELSE /\ run_progress' = [run_progress EXCEPT
                                       !.topics_total = total,
                                       !.current_task =
                                           <<"Article", 1, total,
                                             sorted_briefs'[1].topic_name>>]
                /\ run_log' = run_log \o <<<<"System", "phase 3 started", "info">>,
                                           <<"Production Crew", "writing", "info">>,
                                           <<"Production Crew", "attempt", "info">>>>
                /\ brief_i' = 1
                /\ brief_content' = ReadBriefWeb(sorted_briefs'[1], brief_files)
                /\ inputs' = [topic_name |-> sorted_briefs'[1].topic_name,
                              primary_keyword |->
                                  PrimaryKeywordFor(topic_entries, sorted_briefs'[1]),
                              brief_content |-> brief_content']
                /\ flow_attempt' = 1
                /\ flow_pc' = "attempt"
                /\ UNCHANGED run_phase
    /\ UNCHANGED <<briefs, brief_files, result_text, articles, current_phase,
                   index_written, run_error>>
    /\ UNCHANGED <<chatVars, driver, qaVars, appVars, extVars>>

\* one kickoff that returns, and what follows it up to the next kickoff
WebAttempt ==
    /\ driver = "web"
    /\ flow_pc = "attempt"
    /\ \E text \in KickoffTexts :
          LET brief == sorted_briefs[brief_i]
              total == Len(sorted_briefs)
              passed == IsPassed(text)
              retry == ~passed /\ flow_attempt < FlowMaxAttempts
              done_log == <<"Production Crew", "article done",
                            IF passed THEN "success" ELSE "warning">>
          IN  /\ result_text' = text
              /\ IF retry
                 THEN /\ inputs' = [inputs EXCEPT !.brief_content =
                                       RevisionNotes(brief_content, flow_attempt, text)]
                      /\ flow_attempt' = flow_attempt + 1
                      /\ run_log' = run_log \o
                            <<<<"QA Editor", "retrying", "warning">>,
                              <<"Production Crew", "attempt", "info">>>>
                      /\ UNCHANGED <<articles, brief_i, brief_content, flow_pc,
                                     run_phase, run_progress>>
                 ELSE /\ articles' = Append(articles,
                                         NewArticle(brief, passed, flow_attempt))
                      /\ IF brief_i < total
                         THEN /\ brief_i' = brief_i + 1
                              /\ brief_content' =
                                    ReadBriefWeb(sorted_briefs[brief_i + 1], brief_files)
                              /\ inputs' =
                                    [topic_name |-> sorted_briefs[brief_i + 1].topic_name,
                                     primary_keyword |->
                                         PrimaryKeywordFor(topic_entries,
                                                           sorted_briefs[brief_i + 1]),
                                     brief_content |-> brief_content']
                              /\ flow_attempt' = 1
                              /\ run_progress' = [run_progress EXCEPT
                                    !.topics_done = brief_i,
                                    !.percent = Percent(brief_i, total),
                                    !.current_task =
                                        <<"Article", brief_i + 1, total,
                                          sorted_briefs[brief_i + 1].topic_name>>]
                              /\ run_log' = run_log \o
                                    <<done_log,
                                      <<"Production Crew", "writing", "info">>,
                                      <<"Production Crew", "attempt", "info">>>>
                              /\ UNCHANGED <<flow_pc, run_phase>>
                         ELSE /\ run_progress' = [run_progress EXCEPT
                                    !.topics_done = brief_i,
                                    !.percent = 100,
                                    !.current_task = <<"Production complete">>]
                              /\ run_phase' = "complete"
                              /\ run_log' = run_log \o
                                    <<done_log,
                                      <<"System", "pipeline complete", "success">>>>
                              /\ flow_pc' = "done"
                              /\ UNCHANGED <<brief_i, brief_content, inputs,
                                             flow_attempt>>
    /\ UNCHANGED <<briefs, brief_files, sorted_briefs, current_phase,
                   index_written, run_error>>
    /\ UNCHANGED <<chatVars, driver, qaVars, appVars, extVars>>

\* one kickoff that raises: the thread's except clause
WebAttemptRaises ==
    /\ driver = "web"
    /\ flow_pc = "attempt"
    /\ run_phase' = "error"
    /\ run_error' = "kickoff failed"
    /\ run_log' = Append(run_log, <<"System", "phase 3 error", "error">>)
    /\ flow_pc' = "failed"
    /\ UNCHANGED <<briefs, brief_files, sorted_briefs, brief_i, flow_attempt,
                   brief_content, inputs, result_text, articles, current_phase,
                   index_written, run_progress>>
    /\ UNCHANGED <<chatVars, driver, qaVars, appVars, extVars>>

\* ------------------------------------------------------------------------
InitQA ==
    /\ driver \in {"run_production", "cli", "web"}
    /\ ChatIdle
    /\ AppIdle
    /\ ExtIdle
    /\ IF driver = "run_production"
       THEN InitRunProduction /\ FlowIdle
       ELSE QaIdle /\ InitFlow

NextQA ==
    \/ WriteArticle
    \/ WriteArticleRaises
    \/ ReviewArticle
    \/ ReviewArticleRaises
    \/ CliProductionBegin
    \/ CliAttempt
    \/ CliAttemptRaises
    \/ WebStartPhase3
    \/ WebPhase3Begin
    \/ WebAttempt
    \/ WebAttemptRaises

SpecQA == InitQA /\ [][NextQA]_vars

\* ===================================== phases 1 and 2 and their checkpoints

\* ------------------------------------------------------------------ bounds
MaxTopics == 2

\* ------------------------------------------------------ the topic-map CSV
\* A row as the CSV holds it: every cell is text.
RowA == [topic_name |-> "A", primary_keyword |-> "a", priority_score |-> "3",
         word_count_min |-> "1500"]
RowB == [topic_name |-> "B", primary_keyword |-> "b", priority_score |-> "9",
         word_count_min |-> "1500"]
RowC == [topic_name |-> "C", primary_keyword |-> "c", priority_score |-> "9",
         word_count_min |-> "1500"]

\* a second row for the topic name of RowA, with a keyword of its own
RowA2 == [RowA EXCEPT !.primary_keyword = "a2", !.priority_score = "9"]

ResearchRows == {RowA, RowB, RowC}

NoFile == [state |-> "absent", rows |-> <<>>]

CsvFile(rows) == [state |-> "ok", rows |-> rows]

\* the maps of up to MaxTopics rows, one row per topic
TopicMaps ==
    UNION { {rows \in [1..n -> ResearchRows] :
                \A i, j \in 1..n : rows[i] = rows[j] => i = j} : n \in 0..MaxTopics }

\* what the research crew may leave at the path: nothing, a well-formed map,
\* a map whose last row has a priority that is not a number, or a map with
\* two rows of the same topic name
ResearchFiles ==
    {NoFile}
    \cup {CsvFile(rows) : rows \in TopicMaps}
    \cup {CsvFile(<<RowB, [RowA EXCEPT !.priority_score = "high"]>>),
          CsvFile(<<[RowA EXCEPT !.priority_score = "high"]>>),
          CsvFile(<<RowA, RowA2>>)}

\* the texts int() accepts, among the cell texts of the model
IntTexts == {"-5", "0", "3", "5", "9", "10", "11", "1500", "2500", "3000"}

\* int(text)
IntOf(text) ==
    CASE text = "-5" -> 0 - 5
      [] text = "0" -> 0
      [] text = "10" -> 10
      [] text = "2500" -> 2500
      [] text = "3000" -> 3000
      [] text = "3" -> 3
      [] text = "5" -> 5
      [] text = "9" -> 9
      [] text = "11" -> 11
      [] text = "1500" -> 1500

\* TopicMapEntry(..., word_count_min=int(...), priority_score=int(...)) returns:
\* both cells are integers and the priority passes Field(ge=1, le=10)
RowOk(row) ==
    /\ row.word_count_min \in IntTexts
    /\ row.priority_score \in IntTexts
    /\ IntOf(row.priority_score) >= 1
    /\ IntOf(row.priority_score) <= 10

RowEntry(row) ==
    [topic_name |-> row.topic_name,
     primary_keyword |-> row.primary_keyword,
     priority_score |-> IntOf(row.priority_score),
     word_count_min |-> IntOf(row.word_count_min)]

\* the entries appended by `for row in reader` until a row raises
RECURSIVE ParsedPrefix(_)
ParsedPrefix(rows) ==
    IF rows = <<>> THEN <<>>
    ELSE IF RowOk(rows[1]) THEN <<RowEntry(rows[1])>> \o ParsedPrefix(Tail(rows))
    ELSE <<>>

\* _parse_topic_map: open() raises before anything is assigned; otherwise
\* topic_entries is set to [] and the rows are appended one by one, and the
\* except clause reports whatever stopped the loop
ParseTopicMap(file, old) ==
    IF file.state # "ok"
    THEN [entries |-> old, report |-> <<"could not parse", Len(old)>>]
    ELSE LET prefix == ParsedPrefix(file.rows)
         IN  IF Len(prefix) = Len(file.rows)
             THEN [entries |-> prefix, report |-> <<"parsed", Len(prefix)>>]
             ELSE [entries |-> prefix, report |-> <<"could not parse", Len(prefix)>>]

\* os.path.exists(state.topic_map_csv_path)
Exists(file) == file.state # "absent"

\* `if os.path.exists(path): _parse_topic_map()`
ParseIfExists(file, old) ==
    IF Exists(file) THEN ParseTopicMap(file, old)
    ELSE [entries |-> old, report |-> <<>>]

\* the report, appended when a parse took place
Reported(report, parsed) ==
    IF parsed.report = <<>> THEN report ELSE Append(report, parsed.report)

\* what a human may do to the CSV while the checkpoint waits
CsvEdits(file) ==
    {[file EXCEPT !.state = "unreadable"]}
    \cup (IF file.state = "ok" /\ file.rows # <<>>
          THEN LET n == Len(file.rows)
               IN  { CsvFile([file.rows EXCEPT ![n].priority_score = "high"]),
                     CsvFile([file.rows EXCEPT ![n].priority_score = "11"]),
                     CsvFile([file.rows EXCEPT ![n].word_count_min = "lots"]),
                     CsvFile([file.rows EXCEPT ![n].priority_score = "5"]),
                     CsvFile(Tail(file.rows)) }
          ELSE {})

\* what a human may do to the table shown by st.data_editor
TableEdits(entries) ==
    IF entries = <<>> THEN {}
    ELSE { [entries EXCEPT ![Len(entries)].priority_score = 5],
           Tail(entries) }

\* f"{topic.topic_name} - {today}.md"
BriefFilename(name) ==
    CASE name = "A" -> "A.md"
      [] name = "B" -> "B.md"
      [] name = "C" -> "C.md"

\* ContentBrief(topic_name=..., filename=..., priority_score=..., ...)
NewBrief(topic) ==
    [topic_name |-> topic.topic_name,
     filename |-> BriefFilename(topic.topic_name),
     priority_score |-> topic.priority_score]


\* ------------------------------------------------------------------------
InitPipeline ==
    /\ driver \in {"cli", "web"}
    /\ ChatIdle
    /\ QaIdle
    /\ PipeIdle
    /\ SortIdle
    /\ LogIdle
    /\ RegIdle
    /\ ExtIdle
    /\ briefs = <<>>
    /\ brief_files = {}
    /\ flow_pc = IF driver = "cli" THEN "research" ELSE "setup"
    /\ sorted_briefs = <<>>
    /\ brief_i = 0
    /\ flow_attempt = 0
    /\ brief_content = NoText
    /\ inputs = [topic_name |-> "", primary_keyword |-> "", brief_content |-> NoText]
    /\ result_text = NoText
    /\ articles = <<>>
    /\ current_phase = 0
    /\ index_written = FALSE
    /\ run_phase = "setup"
    /\ run_error = "None"
    /\ run_progress = [phase |-> 0, current_task |-> <<>>, percent |-> 0,
                       topics_total |-> 0, topics_done |-> 0]
    /\ run_log = <<>>

\* ---- CLI flow: ContentFlow.run_research_phase .. checkpoint_phase_2, finalize

\* the research kickoff returns; the CSV is parsed if it is there
RunResearchPhase ==
    /\ driver = "cli"
    /\ flow_pc = "research"
    /\ current_phase' = 1
    /\ \E file \in ResearchFiles :
          LET parsed == ParseIfExists(file, topic_entries)
          IN  /\ topic_file' = file
              /\ topic_entries' = parsed.entries
              /\ parse_report' = Reported(parse_report, parsed)
    /\ flow_pc' = "checkpoint1"
    /\ UNCHANGED <<topic_edit, sorted_topics, topic_i, csv_edited, approved>>
    /\ UNCHANGED <<briefs, brief_files, sorted_briefs, brief_i, flow_attempt,
                   brief_content, inputs, result_text, articles, index_written,
                   run_phase, run_error, run_progress, run_log>>
    /\ UNCHANGED <<chatVars, driver, qaVars, sortVars, logVars, regVars, extVars>>

\* the research kickoff raises: the exception leaves the flow
RunResearchPhaseRaises ==
    /\ driver = "cli"
    /\ flow_pc = "research"
    /\ current_phase' = 1
    /\ flow_pc' = "failed"
    /\ UNCHANGED pipeVars
    /\ UNCHANGED <<briefs, brief_files, sorted_briefs, brief_i, flow_attempt,
                   brief_content, inputs, result_text, articles, index_written,
                   run_phase, run_error, run_progress, run_log>>
    /\ UNCHANGED <<chatVars, driver, qaVars, sortVars, logVars, regVars, extVars>>

\* the human changes the CSV while checkpoint_phase_1 waits for input
HumanEditsCsv ==
    /\ driver = "cli"
    /\ flow_pc \in {"checkpoint1", "checkpoint1_wait"}
    /\ ~csv_edited
    /\ \E file \in CsvEdits(topic_file) :
          /\ file # topic_file
          /\ topic_file' = file
    /\ csv_edited' = TRUE
    /\ UNCHANGED <<topic_entries, topic_edit, sorted_topics, topic_i, parse_report, approved>>
    /\ UNCHANGED flowVars
    /\ UNCHANGED <<chatVars, driver, qaVars, sortVars, logVars, regVars, extVars>>

\* the first answer is "proceed": checkpoint_phase_1 returns at once
Checkpoint1Proceed ==
    /\ driver = "cli"
    /\ flow_pc = "checkpoint1"
    /\ flow_pc' = "brief"
    /\ approved' = Append(approved, 1)
    /\ UNCHANGED <<topic_file, topic_entries, topic_edit, sorted_topics, topic_i,
                   csv_edited, parse_report>>
    /\ UNCHANGED <<briefs, brief_files, sorted_briefs, brief_i, flow_attempt,
                   brief_content, inputs, result_text, articles, current_phase,
                   index_written, run_phase, run_error, run_progress, run_log>>
    /\ UNCHANGED <<chatVars, driver, qaVars, sortVars, logVars, regVars, extVars>>

\* the first answer is something else: the while loop is entered
Checkpoint1Other ==
    /\ driver = "cli"
    /\ flow_pc = "checkpoint1"
    /\ flow_pc' = "checkpoint1_wait"
    /\ UNCHANGED pipeVars
    /\ UNCHANGED <<briefs, brief_files, sorted_briefs, brief_i, flow_attempt,
                   brief_content, inputs, result_text, articles, current_phase,
                   index_written, run_phase, run_error, run_progress, run_log>>
    /\ UNCHANGED <<chatVars, driver, qaVars, sortVars, logVars, regVars, extVars>>

\* "proceed" inside the while loop: break, then the re-parse
Checkpoint1WaitProceed ==
    /\ driver = "cli"
    /\ flow_pc = "checkpoint1_wait"
    /\ LET parsed == ParseIfExists(topic_file, topic_entries)
       IN  /\ topic_entries' = parsed.entries
           /\ parse_report' = Reported(parse_report, parsed)
    /\ flow_pc' = "brief"
    /\ approved' = Append(approved, 1)
    /\ UNCHANGED <<topic_file, topic_edit, sorted_topics, topic_i, csv_edited>>
    /\ UNCHANGED <<briefs, brief_files, sorted_briefs, brief_i, flow_attempt,
                   brief_content, inputs, result_text, articles, current_phase,
                   index_written, run_phase, run_error, run_progress, run_log>>
    /\ UNCHANGED <<chatVars, driver, qaVars, sortVars, logVars, regVars, extVars>>

\* variant: a Brief phase without topics ends the flow
RunBriefPhaseBegin_Stops ==
    /\ driver = "cli"
    /\ flow_pc = "brief"
    /\ current_phase' = 2
    /\ LET parsed == IF topic_entries = <<>>
                     THEN ParseTopicMap(topic_file, topic_entries)
                     ELSE [entries |-> topic_entries, report |-> <<>>]
       IN  /\ topic_entries' = parsed.entries
           /\ parse_report' = Reported(parse_report, parsed)
           /\ IF parsed.entries = <<>>
              THEN /\ brief_phase_ret' = "phase_2_failed"
                   /\ flow_pc' = "failed"
                   /\ UNCHANGED <<sorted_topics, topic_i>>
              ELSE /\ sorted_topics' = SortedByPriority(parsed.entries)
                   /\ topic_i' = 1
                   /\ flow_pc' = "brief_kickoff"
                   /\ UNCHANGED brief_phase_ret
    /\ UNCHANGED <<topic_file, topic_edit, csv_edited, approved>>
    /\ UNCHANGED <<briefs, brief_files, sorted_briefs, brief_i, flow_attempt,
                   brief_content, inputs, result_text, articles, index_written,
                   run_phase, run_error, run_progress, run_log>>
    /\ UNCHANGED <<chatVars, driver, qaVars, sortVars, logVars, regVars,
                   convVars, csvVars, pathVars, thrVars>>

\* run_brief_phase up to the first kickoff; with no topics, to its return
RunBriefPhaseBegin ==
    /\ driver = "cli"
    /\ flow_pc = "brief"
    /\ current_phase' = 2
    /\ LET parsed == IF topic_entries = <<>>
                     THEN ParseTopicMap(topic_file, topic_entries)
                     ELSE [entries |-> topic_entries, report |-> <<>>]
       IN  /\ topic_entries' = parsed.entries
           /\ parse_report' = Reported(parse_report, parsed)
           /\ IF parsed.entries = <<>>
              THEN /\ brief_phase_ret' = "phase_2_failed"
                   /\ flow_pc' = "checkpoint2"
                   /\ UNCHANGED <<sorted_topics, topic_i>>
              ELSE /\ sorted_topics' = SortedByPriority(parsed.entries)
                   /\ topic_i' = 1
                   /\ flow_pc' = "brief_kickoff"
                   /\ UNCHANGED brief_phase_ret
    /\ UNCHANGED <<topic_file, topic_edit, csv_edited, approved>>
    /\ UNCHANGED <<briefs, brief_files, sorted_briefs, brief_i, flow_attempt,
                   brief_content, inputs, result_text, articles, index_written,
                   run_phase, run_error, run_progress, run_log>>
    /\ UNCHANGED <<chatVars, driver, qaVars, sortVars, logVars, regVars,
                   convVars, csvVars, pathVars, thrVars>>

\* one brief kickoff that returns, the brief appended; after the last one
\* the brief index and the return
CliBriefKickoff ==
    /\ driver = "cli"
    /\ flow_pc = "brief_kickoff"
    /\ LET topic == sorted_topics[topic_i]
       IN  /\ briefs' = Append(briefs, NewBrief(topic))
           /\ \E written \in BOOLEAN :
                 brief_files' = IF written
                                THEN brief_files \cup {BriefFilename(topic.topic_name)}
                                ELSE brief_files
    /\ IF topic_i < Len(sorted_topics)
       THEN /\ topic_i' = topic_i + 1
            /\ UNCHANGED <<flow_pc, brief_phase_ret>>
       ELSE /\ brief_phase_ret' = "phase_2_complete"
            /\ flow_pc' = "checkpoint2"
            /\ UNCHANGED topic_i
    /\ UNCHANGED <<topic_file, topic_entries, topic_edit, sorted_topics,
                   csv_edited, parse_report, approved>>
    /\ UNCHANGED <<sorted_briefs, brief_i, flow_attempt, brief_content, inputs,
                   result_text, articles, current_phase, index_written,
                   run_phase, run_error, run_progress, run_log>>
    /\ UNCHANGED <<chatVars, driver, qaVars, sortVars, logVars, regVars,
                   convVars, csvVars, pathVars, thrVars>>

\* one brief kickoff that raises: the exception leaves the flow
CliBriefKickoffRaises ==
    /\ driver = "cli"
    /\ flow_pc = "brief_kickoff"
    /\ flow_pc' = "failed"
    /\ UNCHANGED pipeVars
    /\ UNCHANGED <<briefs, brief_files, sorted_briefs, brief_i, flow_attempt,
                   brief_content, inputs, result_text, articles, current_phase,
                   index_written, run_phase, run_error, run_progress, run_log>>
    /\ UNCHANGED <<chatVars, driver, qaVars, sortVars, logVars, regVars, extVars>>

\* checkpoint_phase_2 returns once "proceed" is typed
Checkpoint2Proceed ==
    /\ driver = "cli"
    /\ flow_pc = "checkpoint2"
    /\ flow_pc' = "start"
    /\ approved' = Append(approved, 2)
    /\ UNCHANGED <<topic_file, topic_entries, topic_edit, sorted_topics, topic_i,
                   csv_edited, parse_report>>
    /\ UNCHANGED <<briefs, brief_files, sorted_briefs, brief_i, flow_attempt,
                   brief_content, inputs, result_text, articles, current_phase,
                   index_written, run_phase, run_error, run_progress, run_log>>
    /\ UNCHANGED <<chatVars, driver, qaVars, sortVars, logVars, regVars, extVars>>

\* finalize, after run_production_phase has returned
Finalize ==
    /\ driver = "cli"
    /\ flow_pc = "done"
    /\ flow_pc' = "finalized"
    /\ UNCHANGED pipeVars
    /\ UNCHANGED <<briefs, brief_files, sorted_briefs, brief_i, flow_attempt,
                   brief_content, inputs, result_text, articles, current_phase,
                   index_written, run_phase, run_error, run_progress, run_log>>
    /\ UNCHANGED <<chatVars, driver, qaVars, sortVars, logVars, regVars, extVars>>

\* ---- web flow: render_setup_form, RunManager.start_phase1, start_phase2

\* the log event of a parse that took place
ParseEvents(parsed) ==
    IF parsed.report = <<>> THEN <<>>
    ELSE IF parsed.report[1] = "parsed"
         THEN <<<<"System", "parsed", "info">>>>
         ELSE <<<<"System", "could not parse", "error">>>>

\* the form is submitted: create_run, then the caller's part of start_phase1
SubmitSetupForm ==
    /\ driver = "web"
    /\ flow_pc = "setup"
    /\ run_phase = "setup"
    /\ run_phase' = "phase1_running"
    /\ run_progress' = [run_progress EXCEPT
                           !.phase = 1,
                           !.current_task = <<"SEO research & topic map generation">>,
                           !.percent = 5]
    /\ flow_pc' = "p1_thread"
    /\ UNCHANGED pipeVars
    /\ UNCHANGED <<briefs, brief_files, sorted_briefs, brief_i, flow_attempt,
                   brief_content, inputs, result_text, articles, current_phase,
                   index_written, run_error, run_log>>
    /\ UNCHANGED <<chatVars, driver, qaVars, sortVars, logVars, regVars, extVars>>

\* the thread of phase 1 when the research kickoff returns
Phase1Thread ==
    /\ driver = "web"
    /\ flow_pc = "p1_thread"
    /\ \E file \in ResearchFiles :
          LET parsed == ParseIfExists(file, topic_entries)
          IN  /\ topic_file' = file
              /\ topic_entries' = parsed.entries
              /\ parse_report' = Reported(parse_report, parsed)
              /\ run_log' = run_log
                     \o <<<<"System", "phase 1 started", "info">>,
                          <<"Research Crew", "starting", "info">>>>
                     \o ParseEvents(parsed)
                     \o <<<<"System", "phase 1 complete", "success">>>>
              /\ run_progress' = [run_progress EXCEPT
                                     !.percent = 100,
                                     !.current_task = <<"Topic map ready for review">>,
                                     !.topics_total = Len(parsed.entries)]
    /\ run_phase' = "phase1_review"
    /\ flow_pc' = "review1"
    /\ UNCHANGED <<topic_edit, sorted_topics, topic_i, csv_edited, approved>>
    /\ UNCHANGED <<briefs, brief_files, sorted_briefs, brief_i, flow_attempt,
                   brief_content, inputs, result_text, articles, current_phase,
                   index_written, run_error>>
    /\ UNCHANGED <<chatVars, driver, qaVars, sortVars, logVars, regVars, extVars>>

\* the thread of phase 1 when the research kickoff raises: the except clause
Phase1ThreadRaises ==
    /\ driver = "web"
    /\ flow_pc = "p1_thread"
    /\ run_progress' = [run_progress EXCEPT !.percent = 10]
    /\ run_phase' = "error"
    /\ run_error' = "kickoff failed"
    /\ run_log' = run_log \o <<<<"System", "phase 1 started", "info">>,
                               <<"Research Crew", "starting", "info">>,
                               <<"System", "phase 1 error", "error">>>>
    /\ flow_pc' = "failed"
    /\ UNCHANGED pipeVars
    /\ UNCHANGED <<briefs, brief_files, sorted_briefs, brief_i, flow_attempt,
                   brief_content, inputs, result_text, articles, current_phase,
                   index_written>>
    /\ UNCHANGED <<chatVars, driver, qaVars, sortVars, logVars, regVars, extVars>>

\* the human edits the table of the phase-1 review (st.data_editor)
EditTopicTable ==
    /\ driver = "web"
    /\ run_phase = "phase1_review"
    /\ topic_entries # <<>>
    /\ ~topic_edit.edited
    /\ \E table \in TableEdits(topic_entries) :
          topic_edit' = [edited |-> TRUE, table |-> table]
    /\ UNCHANGED <<topic_file, topic_entries, sorted_topics, topic_i, csv_edited,
                   parse_report, approved>>
    /\ UNCHANGED flowVars
    /\ UNCHANGED <<chatVars, driver, qaVars, sortVars, logVars, regVars, extVars>>

\* variant: the button is shown while phase 1 is still running
ApprovePhase1_WhileRunning ==
    /\ driver = "web"
    /\ run_phase \in {"phase1_running", "phase1_review"}
    /\ run_phase' = "phase2_running"
    /\ run_progress' = [run_progress EXCEPT
                           !.phase = 2,
                           !.current_task = <<"Generating content briefs">>,
                           !.percent = 0,
                           !.topics_done = 0]
    /\ flow_pc' = "p2_begin"
    /\ approved' = Append(approved, 1)
    /\ UNCHANGED <<topic_file, topic_entries, topic_edit, sorted_topics, topic_i,
                   csv_edited, parse_report>>
    /\ UNCHANGED <<briefs, brief_files, sorted_briefs, brief_i, flow_attempt,
                   brief_content, inputs, result_text, articles, current_phase,
                   index_written, run_error, run_log>>
    /\ UNCHANGED <<chatVars, driver, qaVars, sortVars, logVars, regVars, extVars>>

\* "Approve & Continue", shown in the phase-1 review when there are topics:
\* the caller's part of start_phase2
ApprovePhase1 ==
    /\ driver = "web"
    /\ run_phase = "phase1_review"
    /\ topic_entries # <<>>
    /\ run_phase' = "phase2_running"
    /\ run_progress' = [run_progress EXCEPT
                           !.phase = 2,
                           !.current_task = <<"Generating content briefs">>,
                           !.percent = 0,
                           !.topics_done = 0]
    /\ flow_pc' = "p2_begin"
    /\ approved' = Append(approved, 1)
    /\ UNCHANGED <<topic_file, topic_entries, topic_edit, sorted_topics, topic_i,
                   csv_edited, parse_report>>
    /\ UNCHANGED <<briefs, brief_files, sorted_briefs, brief_i, flow_attempt,
                   brief_content, inputs, result_text, articles, current_phase,
                   index_written, run_error, run_log>>
    /\ UNCHANGED <<chatVars, driver, qaVars, sortVars, logVars, regVars, extVars>>

\* the thread of phase 2 up to the first kickoff; with no topics, to its end
Phase2Begin ==
    /\ driver = "web"
    /\ flow_pc = "p2_begin"
    /\ sorted_topics' = SortedByPriority(topic_entries)
    /\ LET total == Len(sorted_topics')
       IN  IF total = 0
           THEN /\ run_progress' = [run_progress EXCEPT
                                       !.topics_total = 0,
                                       !.percent = 100,
                                       !.current_task = <<"Briefs ready for review">>]
                /\ run_phase' = "phase2_review"
                /\ run_log' = run_log \o <<<<"System", "phase 2 started", "info">>,
                                           <<"System", "phase 2 complete", "success">>>>
                /\ flow_pc' = "start"
                /\ UNCHANGED topic_i
           ELSE /\ run_progress' = [run_progress EXCEPT
                                       !.topics_total = total,
                                       !.current_task =
                                           <<"Brief", 1, total,
                                             sorted_topics'[1].topic_name>>]
                /\ run_log' = run_log \o <<<<"System", "phase 2 started", "info">>,
                                           <<"Brief Crew", "creating brief", "info">>>>
                /\ topic_i' = 1
                /\ flow_pc' = "p2_topic"
                /\ UNCHANGED run_phase
    /\ UNCHANGED <<topic_file, topic_entries, topic_edit, csv_edited, parse_report, approved>>
    /\ UNCHANGED <<briefs, brief_files, sorted_briefs, brief_i, flow_attempt,
                   brief_content, inputs, result_text, articles, current_phase,
                   index_written, run_error>>
    /\ UNCHANGED <<chatVars, driver, qaVars, sortVars, logVars, regVars, extVars>>

\* one brief kickoff that returns, and what follows it up to the next kickoff
Phase2Topic ==
    /\ driver = "web"
    /\ flow_pc = "p2_topic"
    /\ LET topic == sorted_topics[topic_i]
           total == Len(sorted_topics)
           done_log == <<"Brief Crew", "brief done", "success">>
       IN  /\ briefs' = Append(briefs, NewBrief(topic))
           /\ \E written \in BOOLEAN :
                 brief_files' = IF written
                                THEN brief_files \cup {BriefFilename(topic.topic_name)}
                                ELSE brief_files
           /\ IF topic_i < total
              THEN /\ topic_i' = topic_i + 1
                   /\ run_progress' = [run_progress EXCEPT
                         !.topics_done = topic_i,
                         !.percent = Percent(topic_i, total),
                         !.current_task =
                             <<"Brief", topic_i + 1, total,
                               sorted_topics[topic_i + 1].topic_name>>]
                   /\ run_log' = run_log \o
                         <<done_log, <<"Brief Crew", "creating brief", "info">>>>
                   /\ UNCHANGED <<flow_pc, run_phase>>
              ELSE /\ run_progress' = [run_progress EXCEPT
                         !.topics_done = topic_i,
                         !.percent = 100,
                         !.current_task = <<"Briefs ready for review">>]
                   /\ run_phase' = "phase2_review"
                   /\ run_log' = run_log \o
                         <<done_log, <<"System", "phase 2 complete", "success">>>>
                   /\ flow_pc' = "start"
                   /\ UNCHANGED topic_i
    /\ UNCHANGED <<topic_file, topic_entries, topic_edit, sorted_topics,
                   csv_edited, parse_report, approved>>
    /\ UNCHANGED <<sorted_briefs, brief_i, flow_attempt, brief_content, inputs,
                   result_text, articles, current_phase, index_written, run_error>>
    /\ UNCHANGED <<chatVars, driver, qaVars, sortVars, logVars, regVars, extVars>>

\* variant: no except clause, the exception ends the thread
Phase2TopicRaises_Uncaught ==
    /\ driver = "web"
    /\ flow_pc = "p2_topic"
    /\ flow_pc' = "failed"
    /\ UNCHANGED pipeVars
    /\ UNCHANGED <<briefs, brief_files, sorted_briefs, brief_i, flow_attempt,
                   brief_content, inputs, result_text, articles, current_phase,
                   index_written, run_phase, run_error, run_progress, run_log>>
    /\ UNCHANGED <<chatVars, driver, qaVars, sortVars, logVars, regVars, extVars>>

\* one brief kickoff that raises: the thread's except clause
Phase2TopicRaises ==
    /\ driver = "web"
    /\ flow_pc = "p2_topic"
    /\ run_phase' = "error"
    /\ run_error' = "kickoff failed"
    /\ run_log' = Append(run_log, <<"System", "phase 2 error", "error">>)
    /\ flow_pc' = "failed"
    /\ UNCHANGED pipeVars
    /\ UNCHANGED <<briefs, brief_files, sorted_briefs, brief_i, flow_attempt,
                   brief_content, inputs, result_text, articles, current_phase,
                   index_written, run_progress>>
    /\ UNCHANGED <<chatVars, driver, qaVars, sortVars, logVars, regVars, extVars>>

\* "Approve & Start Production", shown in the phase-2 review when there are
\* briefs: start_phase3
ApprovePhase2 ==
    /\ driver = "web"
    /\ run_phase = "phase2_review"
    /\ briefs # <<>>
    /\ flow_pc = "start"
    /\ run_phase' = "phase3_running"
    /\ run_progress' = [run_progress EXCEPT !.phase = 3,
                                            !.current_task = <<"Writing articles">>,
                                            !.percent = 0,
                                            !.topics_done = 0]
    /\ flow_pc' = "begin"
    /\ approved' = Append(approved, 2)
    /\ UNCHANGED <<topic_file, topic_entries, topic_edit, sorted_topics, topic_i,
                   csv_edited, parse_report>>
    /\ UNCHANGED <<briefs, brief_files, sorted_briefs, brief_i, flow_attempt,
                   brief_content, inputs, result_text, articles, current_phase,
                   index_written, run_error, run_log>>
    /\ UNCHANGED <<chatVars, driver, qaVars, sortVars, logVars, regVars, extVars>>

\* ------------------------------------------------------------------------
NextPipeline ==
    \/ RunResearchPhase
    \/ RunResearchPhaseRaises
    \/ HumanEditsCsv
    \/ Checkpoint1Proceed
    \/ Checkpoint1Other
    \/ Checkpoint1WaitProceed
    \/ RunBriefPhaseBegin
    \/ CliBriefKickoff
    \/ CliBriefKickoffRaises
    \/ Checkpoint2Proceed
    \/ CliProductionBegin
    \/ CliAttempt
    \/ CliAttemptRaises
    \/ Finalize
    \/ SubmitSetupForm
    \/ Phase1Thread
    \/ Phase1ThreadRaises
    \/ EditTopicTable
    \/ ApprovePhase1
    \/ Phase2Begin
    \/ Phase2Topic
    \/ Phase2TopicRaises
    \/ ApprovePhase2
    \/ WebPhase3Begin
    \/ WebAttempt
    \/ WebAttemptRaises

SpecPipeline == InitPipeline /\ [][NextPipeline]_vars

\* ============================= the loops over sorted topics and sorted briefs

\* ------------------------------------------------------------------ bounds
MaxEntries == 4

\* priority_score values of the entries offered to the loops
Scores == {3, 5, 9}

\* the entry at row i of the input: rows differ in topic_name
Entry(i, score) == [topic_name |-> <<"topic", i>>, priority_score |-> score]

\* state.topic_entries or state.briefs as a phase finds them: any order of
\* scores, equal scores included
EntryLists ==
    {<<>>} \cup
    UNION { { [i \in 1..n |-> Entry(i, f[i])] : f \in [1..n -> Scores] } :
            n \in 1..MaxEntries }

InitSort ==
    /\ driver = "sort"
    /\ ChatIdle
    /\ QaIdle
    /\ FlowIdle
    /\ PipeIdle
    /\ LogIdle
    /\ RegIdle
    /\ ExtIdle
    /\ sort_site \in {"brief", "production"}
    /\ sort_input \in EntryLists
    /\ sort_pc = "sort"
    /\ sorted_entries = <<>>
    /\ processed = <<>>

\* sorted_topics = sorted(state.topic_entries, key=priority_score, reverse=True)
SortTopics ==
    /\ driver = "sort"
    /\ sort_site = "brief"
    /\ sort_pc = "sort"
    /\ sorted_entries' = SortedByPriority(sort_input)
    /\ sort_pc' = "loop"
    /\ UNCHANGED <<sort_site, sort_input, processed>>
    /\ UNCHANGED <<chatVars, driver, qaVars, flowVars, pipeVars, logVars, regVars, extVars>>

\* sorted_briefs = sorted(state.briefs, key=priority_score, reverse=True)
SortBriefs ==
    /\ driver = "sort"
    /\ sort_site = "production"
    /\ sort_pc = "sort"
    /\ sorted_entries' = SortedByPriority(sort_input)
    /\ sort_pc' = "loop"
    /\ UNCHANGED <<sort_site, sort_input, processed>>
    /\ UNCHANGED <<chatVars, driver, qaVars, flowVars, pipeVars, logVars, regVars, extVars>>

\* one iteration of "for i, topic in enumerate(sorted_topics, 1)" or of
\* "for i, brief in enumerate(sorted_briefs, 1)": the body runs for entry i
ProcessEntry ==
    /\ driver = "sort"
    /\ sort_pc = "loop"
    /\ Len(processed) < Len(sorted_entries)
    /\ processed' = Append(processed, sorted_entries[Len(processed) + 1])
    /\ UNCHANGED <<sort_site, sort_input, sort_pc, sorted_entries>>
    /\ UNCHANGED <<chatVars, driver, qaVars, flowVars, pipeVars, logVars, regVars, extVars>>

\* the iterator is exhausted
LoopEnds ==
    /\ driver = "sort"
    /\ sort_pc = "loop"
    /\ Len(processed) = Len(sorted_entries)
    /\ sort_pc' = "done"
    /\ UNCHANGED <<sort_site, sort_input, sorted_entries, processed>>
    /\ UNCHANGED <<chatVars, driver, qaVars, flowVars, pipeVars, logVars, regVars, extVars>>

NextSort ==
    \/ SortTopics
    \/ SortBriefs
    \/ ProcessEntry
    \/ LoopEnds

SpecSort == InitSort /\ [][NextSort]_vars

\* ================================== the log queue of a run and its observer

\* ------------------------------------------------------------------ bounds
MaxEvents == 3

LogSources == {"System", "Research Crew"}

LogLevels == {"info", "error"}

\* the dict emit_log builds; id stands for the identity of the dict object
LogEvent(id, source, level) == [id |-> id, source |-> source, level |-> level]

\* Queue.put: at the tail
QueuePut(queue, event) == Append(queue, event)

\* variant: the newest event is taken
QueueGet_Newest(queue) ==
    [event |-> queue[Len(queue)], rest |-> SubSeq(queue, 1, Len(queue) - 1)]

\* Queue.get_nowait on a non-empty queue: the oldest event is taken
QueueGet(queue) == [event |-> Head(queue), rest |-> Tail(queue)]

\* the form has been submitted: the run is created and selected
InitLogs ==
    /\ driver = "logs"
    /\ ChatIdle
    /\ QaIdle
    /\ FlowIdle
    /\ PipeIdle
    /\ SortIdle
    /\ RegIdle
    /\ ExtIdle
    /\ log_queue = <<>>
    /\ emitted = <<>>
    /\ current_run_id = "run"
    /\ session_logs = <<>>
    /\ drain_pc = "idle"
    /\ delivered = <<>>

\* PipelineRun.emit_log, called by the thread of the run
EmitLog ==
    /\ driver = "logs"
    /\ Len(emitted) < MaxEvents
    /\ \E source \in LogSources, level \in LogLevels :
          LET event == LogEvent(Len(emitted) + 1, source, level)
          IN  /\ log_queue' = QueuePut(log_queue, event)
              /\ emitted' = Append(emitted, event)
    /\ UNCHANGED <<current_run_id, session_logs, drain_pc, delivered>>
    /\ UNCHANGED <<chatVars, driver, qaVars, flowVars, pipeVars, sortVars, regVars, extVars>>

\* sidebar: "New Pipeline Run"
SelectNew ==
    /\ driver = "logs"
    /\ drain_pc = "idle"
    /\ current_run_id' = "new"
    /\ session_logs' = <<>>
    /\ UNCHANGED <<log_queue, emitted, drain_pc, delivered>>
    /\ UNCHANGED <<chatVars, driver, qaVars, flowVars, pipeVars, sortVars, regVars, extVars>>

\* sidebar: the button of the run
SelectRun ==
    /\ driver = "logs"
    /\ drain_pc = "idle"
    /\ current_run_id' = "run"
    /\ session_logs' = <<>>
    /\ UNCHANGED <<log_queue, emitted, drain_pc, delivered>>
    /\ UNCHANGED <<chatVars, driver, qaVars, flowVars, pipeVars, sortVars, regVars, extVars>>

\* a script run reaches render_run_detail and enters drain_logs
DrainBegin ==
    /\ driver = "logs"
    /\ drain_pc = "idle"
    /\ current_run_id = "run"
    /\ drain_pc' = "draining"
    /\ UNCHANGED <<log_queue, emitted, current_run_id, session_logs, delivered>>
    /\ UNCHANGED <<chatVars, driver, qaVars, flowVars, pipeVars, sortVars, regVars, extVars>>

\* one iteration of the while loop of drain_logs
DrainOne ==
    /\ driver = "logs"
    /\ drain_pc = "draining"
    /\ log_queue # <<>>
    /\ LET got == QueueGet(log_queue)
       IN  /\ log_queue' = got.rest
           /\ session_logs' = Append(session_logs, got.event)
           /\ delivered' = Append(delivered, got.event)
    /\ UNCHANGED <<emitted, current_run_id, drain_pc>>
    /\ UNCHANGED <<chatVars, driver, qaVars, flowVars, pipeVars, sortVars, regVars, extVars>>

\* run.log_queue.empty() is true: drain_logs returns
DrainEnd ==
    /\ driver = "logs"
    /\ drain_pc = "draining"
    /\ log_queue = <<>>
    /\ drain_pc' = "idle"
    /\ UNCHANGED <<log_queue, emitted, current_run_id, session_logs, delivered>>
    /\ UNCHANGED <<chatVars, driver, qaVars, flowVars, pipeVars, sortVars, regVars, extVars>>

NextLogs ==
    \/ EmitLog
    \/ SelectNew
    \/ SelectRun
    \/ DrainBegin
    \/ DrainOne
    \/ DrainEnd

SpecLogs == InitLogs /\ [][NextLogs]_vars

\* ============================================== RunManager and its runs

\* ------------------------------------------------------------------ bounds
MaxRuns == 2

\* the values of str(uuid.uuid4())[:8]: the first 8 hex digits of a random
\* UUID; create_run does not compare the value with the keys of _runs
RunIds == {"1b9d6bcd", "6ec0bd7f"}

\* PipelineRun.__init__; created_at is the ordinal of the construction
NewRun(run_id, ordinal) ==
    [run_id |-> run_id,
     created_at |-> ordinal,
     phase |-> "setup",
     error |-> "None",
     progress |-> [phase |-> 0, percent |-> 0],
     log_queue |-> <<>>,
     state |-> [topic_count |-> 0, brief_count |-> 0, article_count |-> 0]]

\* PipelineRun.to_summary
ToSummary(run) ==
    [run_id |-> run.run_id,
     phase |-> run.phase,
     progress |-> run.progress,
     created_at |-> run.created_at,
     error |-> run.error,
     topic_count |-> run.state.topic_count,
     brief_count |-> run.state.brief_count,
     article_count |-> run.state.article_count]

\* d[key] = value on a dict: an existing key keeps its place and gets the new
\* value, a new key goes to the end
DictSet(d, key, value) ==
    IF \E i \in 1..Len(d) : d[i][1] = key
    THEN [i \in 1..Len(d) |-> IF d[i][1] = key THEN <<key, value>> ELSE d[i]]
    ELSE Append(d, <<key, value>>)

\* d.get(key): 0 stands for None
DictGet(d, key) ==
    IF \E i \in 1..Len(d) : d[i][1] = key
    THEN d[CHOOSE i \in 1..Len(d) : d[i][1] = key][2]
    ELSE 0

\* d.values(), in insertion order
DictValues(d) == [i \in 1..Len(d) |-> d[i][2]]

InitRegistry ==
    /\ driver = "registry"
    /\ ChatIdle
    /\ QaIdle
    /\ FlowIdle
    /\ PipeIdle
    /\ SortIdle
    /\ LogIdle
    /\ RegIdle
    /\ ExtIdle

\* create_run up to the construction of the PipelineRun (lines 99-110)
CreateRunBegin(c) ==
    /\ driver \in {"registry", "runs"}
    /\ driver = "runs" => c = "script"
    /\ callers[c].pc = "idle"
    /\ Len(heap) < MaxRuns
    /\ \E run_id \in RunIds :
          heap' = Append(heap, NewRun(run_id, Len(heap) + 1))
    /\ callers' = [callers EXCEPT ![c] = [pc |-> "constructed", run |-> Len(heap) + 1]]
    /\ UNCHANGED <<runs_dict, returned, last_get, last_list>>
    /\ UNCHANGED <<chatVars, driver, qaVars, flowVars, pipeVars, sortVars, logVars, extVars>>

\* with self._lock: self._runs[run_id] = run.  One step: every access to
\* _runs is made while holding _lock
CreateRunRegister(c) ==
    /\ driver \in {"registry", "runs"}
    /\ callers[c].pc = "constructed"
    /\ runs_dict' = DictSet(runs_dict, heap[callers[c].run].run_id, callers[c].run)
    /\ callers' = [callers EXCEPT ![c].pc = "registered"]
    /\ UNCHANGED <<heap, returned, last_get, last_list>>
    /\ UNCHANGED <<chatVars, driver, qaVars, flowVars, pipeVars, sortVars, logVars, extVars>>

\* return run
CreateRunReturn(c) ==
    /\ driver \in {"registry", "runs"}
    /\ callers[c].pc = "registered"
    /\ returned' = returned \cup {callers[c].run}
    /\ callers' = [callers EXCEPT ![c] = [pc |-> "idle", run |-> 0]]
    /\ UNCHANGED <<runs_dict, heap, last_get, last_list>>
    /\ UNCHANGED <<chatVars, driver, qaVars, flowVars, pipeVars, sortVars, logVars, extVars>>

\* get_run(run_id), by a thread that is not inside create_run
GetRun(c) ==
    /\ driver = "registry"
    /\ callers[c].pc = "idle"
    /\ \E run_id \in RunIds :
          last_get' = [run_id |-> run_id, run |-> DictGet(runs_dict, run_id)]
    /\ UNCHANGED <<runs_dict, heap, callers, returned, last_list>>
    /\ UNCHANGED <<chatVars, driver, qaVars, flowVars, pipeVars, sortVars, logVars, extVars>>

\* list_runs(), by a thread that is not inside create_run
ListRuns(c) ==
    /\ driver = "registry"
    /\ callers[c].pc = "idle"
    /\ last_list' = [i \in 1..Len(runs_dict) |-> ToSummary(heap[DictValues(runs_dict)[i]])]
    /\ UNCHANGED <<runs_dict, heap, callers, returned, last_get>>
    /\ UNCHANGED <<chatVars, driver, qaVars, flowVars, pipeVars, sortVars, logVars, extVars>>

NextRegistry ==
    \/ \E c \in Callers : CreateRunBegin(c)
    \/ \E c \in Callers : CreateRunRegister(c)
    \/ \E c \in Callers : CreateRunReturn(c)
    \/ \E c \in Callers : GetRun(c)
    \/ \E c \in Callers : ListRuns(c)

SpecRegistry == InitRegistry /\ [][NextRegistry]_vars

\* ---- the phases of the runs of one RunManager

RunningPhases == {"phase1_running", "phase2_running", "phase3_running"}

\* the number of the phase a thread is running
PhaseNo(phase) ==
    CASE phase = "phase1_running" -> 1
      [] phase = "phase2_running" -> 2
      [] phase = "phase3_running" -> 3

\* the phase a thread sets when its work is done
PhaseAfter(n) == <<"phase1_review", "phase2_review", "complete">>[n]

\* variant: progress is one dict shared by all runs
SetProgress_Shared(objs, run, n, percent) ==
    [o \in 1..Len(objs) |->
        [objs[o] EXCEPT !.progress = [phase |-> n, percent |-> percent]]]

\* run.progress["phase"] = n; run.progress["percent"] = percent
SetProgress(objs, run, n, percent) ==
    [objs EXCEPT ![run].progress = [phase |-> n, percent |-> percent]]

\* run.emit_log(...)
EmitTo(objs, run, event) ==
    [objs EXCEPT ![run].log_queue = Append(@, event)]

InitRuns ==
    /\ driver = "runs"
    /\ ChatIdle
    /\ QaIdle
    /\ FlowIdle
    /\ PipeIdle
    /\ SortIdle
    /\ LogIdle
    /\ RegIdle
    /\ ExtIdle

\* render_setup_form: rm.start_phase1(run) on the run create_run returned
\* (the caller's part, up to the start of the thread)
RunStartPhase1(run) ==
    /\ driver = "runs"
    /\ run \in returned
    /\ heap[run].phase = "setup"
    /\ heap' = SetProgress([heap EXCEPT ![run].phase = "phase1_running"], run, 1, 5)
    /\ UNCHANGED <<runs_dict, callers, returned, last_get, last_list>>
    /\ UNCHANGED <<chatVars, driver, qaVars, flowVars, pipeVars, sortVars, logVars, extVars>>

\* render_run_detail: the approve button of the topic map, on the run that
\* get_run finds; rm.start_phase2(run), the caller's part
RunStartPhase2(run) ==
    /\ driver = "runs"
    /\ callers["script"].pc = "idle"
    /\ DictGet(runs_dict, heap[run].run_id) = run
    /\ heap[run].phase = "phase1_review"
    /\ heap[run].state.topic_count > 0
    /\ heap' = SetProgress([heap EXCEPT ![run].phase = "phase2_running"], run, 2, 0)
    /\ UNCHANGED <<runs_dict, callers, returned, last_get, last_list>>
    /\ UNCHANGED <<chatVars, driver, qaVars, flowVars, pipeVars, sortVars, logVars, extVars>>

\* render_run_detail: the approve button of the briefs; rm.start_phase3(run),
\* the caller's part
RunStartPhase3(run) ==
    /\ driver = "runs"
    /\ callers["script"].pc = "idle"
    /\ DictGet(runs_dict, heap[run].run_id) = run
    /\ heap[run].phase = "phase2_review"
    /\ heap[run].state.brief_count > 0
    /\ heap' = SetProgress([heap EXCEPT ![run].phase = "phase3_running"], run, 3, 0)
    /\ UNCHANGED <<runs_dict, callers, returned, last_get, last_list>>
    /\ UNCHANGED <<chatVars, driver, qaVars, flowVars, pipeVars, sortVars, logVars, extVars>>

\* the thread of a phase, when no kickoff raises: the entries of the phase
\* are added to run.state, progress goes to 100, the phase is set, the event
\* is queued
RunThreadCompletes(run) ==
    /\ driver = "runs"
    /\ run \in DOMAIN heap
    /\ heap[run].phase \in RunningPhases
    /\ LET n == PhaseNo(heap[run].phase)
       IN  \E topics \in {0, 1} :
             LET old == heap[run].state
                 new == CASE n = 1 -> [old EXCEPT !.topic_count = topics]
                          [] n = 2 -> [old EXCEPT !.brief_count = old.topic_count]
                          [] n = 3 -> [old EXCEPT !.article_count = old.brief_count]
             IN  /\ n # 1 => topics = 0
                 /\ heap' = EmitTo(
                        [SetProgress(heap, run, n, 100) EXCEPT
                            ![run].state = new,
                            ![run].phase = PhaseAfter(n)],
                        run, <<"System", n, "success">>)
    /\ UNCHANGED <<runs_dict, callers, returned, last_get, last_list>>
    /\ UNCHANGED <<chatVars, driver, qaVars, flowVars, pipeVars, sortVars, logVars, extVars>>

\* the thread of a phase, when a kickoff raises: the except clause
RunThreadRaises(run) ==
    /\ driver = "runs"
    /\ run \in DOMAIN heap
    /\ heap[run].phase \in RunningPhases
    /\ heap' = EmitTo(
           [heap EXCEPT ![run].phase = "error", ![run].error = "kickoff failed"],
           run, <<"System", PhaseNo(heap[run].phase), "error">>)
    /\ UNCHANGED <<runs_dict, callers, returned, last_get, last_list>>
    /\ UNCHANGED <<chatVars, driver, qaVars, flowVars, pipeVars, sortVars, logVars, extVars>>

NextRuns ==
    \/ CreateRunBegin("script")
    \/ CreateRunRegister("script")
    \/ CreateRunReturn("script")
    \/ \E run \in DOMAIN heap : RunStartPhase1(run)
    \/ \E run \in DOMAIN heap : RunStartPhase2(run)
    \/ \E run \in DOMAIN heap : RunStartPhase3(run)
    \/ \E run \in DOMAIN heap : RunThreadCompletes(run)
    \/ \E run \in DOMAIN heap : RunThreadRaises(run)

SpecRuns == InitRuns /\ [][NextRuns]_vars

\* ============================================ _convert_tool_declarations

\* A dict of the source is a function on the keys it holds; the dict of the
\* properties of a schema, whose order is kept, is a sequence of <<name, spec>>
\* pairs; a type name is a sequence of characters.

\* ------------------------------------------------------------------ bounds
MaxDepth == 5

notConvVars == <<chatVars, driver, qaVars, flowVars, appVars, csvVars, pathVars, thrVars,
                 retVars>>

\* str.lower(), one character
LowerChar(c) ==
    IF \E i \in DOMAIN Uppercase : Uppercase[i] = c
    THEN Lowercase[CHOOSE i \in DOMAIN Uppercase : Uppercase[i] = c]
    ELSE c

\* variant: the type name is carried over as it is
ConvertGeminiType_AsIs(t) == t

\* _convert_gemini_type: t.lower()
ConvertGeminiType(t) == [i \in DOMAIN t |-> LowerChar(t[i])]

\* the keys _convert_gemini_properties looks for in a property spec
SpecKeys == {"type", "description", "properties", "required", "items"}

\* _convert_gemini_properties
RECURSIVE ConvertGeminiProperties(_)
ConvertGeminiProperties(props) ==
    [n \in 1..Len(props) |->
        LET spec == props[n][2]
            converted ==
                [key \in DOMAIN spec \cap SpecKeys |->
                    CASE key = "type" -> ConvertGeminiType(spec.type)
                      [] key = "description" -> spec.description
                      [] key = "properties" -> ConvertGeminiProperties(spec.properties)
                      [] key = "required" -> spec.required
                      [] key = "items" ->
                            ConvertGeminiProperties(<<<<"_", spec.items>>>>)[1][2]]
        IN  <<props[n][1], converted>>]

\* d.get(key, default)
GetOr(d, key, default) == IF key \in DOMAIN d THEN d[key] ELSE default

TypeObject == <<"o", "b", "j", "e", "c", "t">>

\* the body of the inner loop: the tool built for one function declaration
ConvertDecl(fd) ==
    LET params == GetOr(fd, "parameters", <<>>)
        base == [type |-> TypeObject,
                 properties |-> ConvertGeminiProperties(GetOr(params, "properties", <<>>))]
        input_schema ==
            IF "required" \in DOMAIN params
            THEN [type |-> base.type, properties |-> base.properties,
                  required |-> params.required]
            ELSE base
    IN  [name |-> fd.name,
         description |-> GetOr(fd, "description", ""),
         input_schema |-> input_schema]

\* _convert_tool_declarations: the tools of the groups, in order
RECURSIVE ConvertToolDeclarations(_)
ConvertToolDeclarations(decls) ==
    IF decls = <<>> THEN <<>>
    ELSE LET func_decls == GetOr(Head(decls), "function_declarations", <<>>)
         IN  [n \in 1..Len(func_decls) |-> ConvertDecl(func_decls[n])]
               \o ConvertToolDeclarations(Tail(decls))

\* ---- the declarations offered to the translator
TypeString == <<"S", "T", "R", "I", "N", "G">>

TypeInteger == <<"I", "n", "t", "e", "g", "e", "r">>

TypeArray == <<"A", "R", "R", "A", "Y">>

TypeObjectUpper == <<"O", "B", "J", "E", "C", "T">>

\* primitive property specs: typed with a description, typed without one,
\* and one with no type
PrimitiveSpecs ==
    { [type |-> TypeString, description |-> "text"],
      [type |-> TypeInteger],
      [description |-> "untyped"] }

\* the property specs that nest exactly d levels of objects and arrays
RECURSIVE SpecsOfDepth(_)
SpecsOfDepth(d) ==
    IF d = 0 THEN PrimitiveSpecs
    ELSE LET inner == SpecsOfDepth(d - 1)
         IN  { [type |-> TypeObjectUpper,
                properties |-> <<<<"p", s>>>>,
                required |-> <<"p">>] : s \in inner }
             \cup
             { [type |-> TypeObjectUpper,
                description |-> "pair",
                properties |-> <<<<"p", s>>, <<"q", [type |-> TypeInteger]>>>>] : s \in inner }
             \cup
             { [type |-> TypeArray, items |-> s] : s \in inner }

\* a function declaration whose parameters hold one property spec
DeclOf(name, spec) ==
    [name |-> name,
     description |-> "does " \o name,
     parameters |-> [type |-> TypeObjectUpper,
                     properties |-> <<<<"arg", spec>>>>,
                     required |-> <<"arg">>]]

\* declarations that leave fields out
DeclNoDescription ==
    [name |-> "bare",
     parameters |-> [type |-> TypeObjectUpper,
                     properties |-> <<<<"arg", [type |-> TypeString]>>>>]]

DeclNoParameters == [name |-> "ping", description |-> "no arguments"]

DeclNoProperties ==
    [name |-> "empty", description |-> "empty schema", parameters |-> [a \in {} |-> 0]]

ToolDeclarations ==
    { <<[function_declarations |-> <<DeclOf("search", s)>>]>> :
        s \in UNION { SpecsOfDepth(d) : d \in 0..(MaxDepth - 1) } }
    \cup
    { <<[function_declarations |-> <<DeclOf("search", s), DeclOf("write", t)>>],
        [function_declarations |-> <<DeclOf("read", t)>>]>> :
        s \in SpecsOfDepth(1), t \in PrimitiveSpecs }
    \cup
    { <<[function_declarations |-> <<d>>]>> :
        d \in {DeclNoDescription, DeclNoParameters, DeclNoProperties} }
    \cup
    { <<>>, <<[a \in {} |-> 0]>>, <<[function_declarations |-> <<>>]>> }

InitConvert ==
    /\ driver = "convert"
    /\ ChatIdle
    /\ QaIdle
    /\ FlowIdle
    /\ AppIdle
    /\ CsvIdle
    /\ PathIdle
    /\ ThrIdle
    /\ RetIdle
    /\ gemini_decls \in ToolDeclarations
    /\ anthropic_tools = <<>>
    /\ conv_pc = "call"

\* anthropic_tools = _convert_tool_declarations(tool_declarations)
CallConvertToolDeclarations ==
    /\ driver = "convert"
    /\ conv_pc = "call"
    /\ anthropic_tools' = ConvertToolDeclarations(gemini_decls)
    /\ conv_pc' = "returned"
    /\ UNCHANGED gemini_decls
    /\ UNCHANGED notConvVars

NextConvert == CallConvertToolDeclarations

SpecConvert == InitConvert /\ [][NextConvert]_vars

\* ============================ the topic-map CSV: writer tool and parser

\* A line of the CSV text is a sequence of pieces; the comma, the double
\* quote and the blank are pieces of their own, so that the reader's
\* splitting, the quoting and strip() are computed piece by piece.

notCsvVars == <<chatVars, driver, qaVars, flowVars, appVars, convVars, pathVars, thrVars,
                retVars>>

\* constants.CSV_HEADERS
CSV_HEADERS ==
    <<"topic_level", "parent_cluster", "topic_name", "primary_keyword",
      "secondary_keywords", "search_intent", "content_type", "word_count_min",
      "word_count_max", "target_entities", "questions_to_answer",
      "information_gain_opportunity", "rag_optimization_notes",
      "internal_link_targets", "priority_score", "competition_level",
      "serp_features_opportunity">>

IntColumns == {"word_count_min", "word_count_max", "priority_score"}

DQ == "\""

\* csv.reader on one line, default dialect: a quote opens a quoted field
\* only at the start of the field, a doubled quote inside one is a quote
RECURSIVE ReadCell(_, _, _)
ReadCell(line, st, cell) ==
    IF line = <<>>
    THEN [cell |-> cell, rest |-> <<>>, delimiter |-> FALSE]
    ELSE LET c == Head(line)
             rest == Tail(line)
         IN  CASE st = "start" ->
                    IF c = DQ THEN ReadCell(rest, "quoted", <<>>)
                    ELSE IF c = "," THEN [cell |-> <<>>, rest |-> rest, delimiter |-> TRUE]
                    ELSE ReadCell(rest, "field", <<c>>)
               [] st = "field" ->
                    IF c = "," THEN [cell |-> cell, rest |-> rest, delimiter |-> TRUE]
                    ELSE ReadCell(rest, "field", Append(cell, c))
               [] st = "quoted" ->
                    IF c = DQ THEN ReadCell(rest, "quote_in_quoted", cell)
                    ELSE ReadCell(rest, "quoted", Append(cell, c))
               [] st = "quote_in_quoted" ->
                    IF c = DQ THEN ReadCell(rest, "quoted", Append(cell, DQ))
                    ELSE IF c = "," THEN [cell |-> cell, rest |-> rest, delimiter |-> TRUE]
                    ELSE ReadCell(rest, "field", Append(cell, c))

\* the fields of one line that is not empty: a field ends at a delimiter or
\* at the end of the line
RECURSIVE ReadFieldsFrom(_)
ReadFieldsFrom(line) ==
    LET got == ReadCell(line, "start", <<>>)
    IN  IF got.delimiter THEN <<got.cell>> \o ReadFieldsFrom(got.rest)
        ELSE <<got.cell>>

ReadFields(line) == IF line = <<>> THEN <<>> ELSE ReadFieldsFrom(line)

\* csv.reader(f): one list of fields per line, [] for an empty line
CsvReader(lines) == [n \in 1..Len(lines) |-> ReadFields(lines[n])]

\* str.lstrip()
RECURSIVE LStrip(_)
LStrip(text) ==
    IF text # <<>> /\ Head(text) = " " THEN LStrip(Tail(text)) ELSE text

\* str.strip()
RECURSIVE Strip(_)
Strip(text) ==
    LET t == LStrip(text)
    IN  IF t # <<>> /\ t[Len(t)] = " " THEN Strip(SubSeq(t, 1, Len(t) - 1)) ELSE t

\* row.get(name, default) on a row of csv.DictReader: the field under the
\* last column whose header is exactly name; None (none = TRUE) when the row
\* is shorter than the header; the default when no column has that header
RowGet(fieldnames, row, name, default) ==
    LET hits == { i \in 1..Len(fieldnames) : fieldnames[i] = <<name>> }
    IN  IF hits = {} THEN [none |-> FALSE, missing |-> TRUE, cell |-> default]
        ELSE LET i == CHOOSE k \in hits : \A m \in hits : m <= k
             IN  IF i <= Len(row)
                 THEN [none |-> FALSE, missing |-> FALSE, cell |-> row[i]]
                 ELSE [none |-> TRUE, missing |-> FALSE, cell |-> <<>>]

\* the default of row.get for a text column
TextDefault(name) ==
    CASE name = "topic_level" -> <<"supporting">>
      [] name = "search_intent" -> <<"informational">>
      [] name = "content_type" -> <<"guide">>
      [] name = "competition_level" -> <<"medium">>
      [] OTHER -> <<>>

\* the default of row.get for an integer column
IntDefault(name) ==
    CASE name = "word_count_min" -> 1500
      [] name = "word_count_max" -> 2500
      [] name = "priority_score" -> 5

\* int(x) returns: x is the integer default, or text that is an integer
\* literal once blanks around it are dropped
IntParses(got) ==
    \/ got.missing
    \/ /\ ~got.none
       /\ Len(Strip(got.cell)) = 1
       /\ Strip(got.cell)[1] \in IntTexts

IntValue(got, name) ==
    IF got.missing THEN IntDefault(name) ELSE IntOf(Strip(got.cell)[1])

\* TopicMapEntry(...) without the bounds of priority_score
EntryBuilds_AnyScore(fieldnames, row) ==
    \A n \in 1..Len(CSV_HEADERS) :
        LET name == CSV_HEADERS[n]
            got == RowGet(fieldnames, row, name, <<>>)
        IN  IF name \in IntColumns THEN IntParses(got) ELSE ~got.none

\* TopicMapEntry(...) for one row returns: no .strip() on None, every int()
\* returns, and priority_score passes Field(ge=1, le=10)
EntryBuilds(fieldnames, row) ==
    /\ \A n \in 1..Len(CSV_HEADERS) :
          LET name == CSV_HEADERS[n]
              got == RowGet(fieldnames, row, name, <<>>)
          IN  IF name \in IntColumns THEN IntParses(got) ELSE ~got.none
    /\ LET score == IntValue(RowGet(fieldnames, row, "priority_score", <<>>),
                             "priority_score")
       IN  score >= 1 /\ score <= 10

\* the TopicMapEntry built from one row
EntryOf(fieldnames, row) ==
    [name \in { CSV_HEADERS[n] : n \in 1..Len(CSV_HEADERS) } |->
        IF name \in IntColumns
        THEN IntValue(RowGet(fieldnames, row, name, <<>>), name)
        ELSE Strip(RowGet(fieldnames, row, name, TextDefault(name)).cell)]

\* the entries appended by `for row in reader` until a row raises
RECURSIVE EntriesUntilRaise(_, _)
EntriesUntilRaise(fieldnames, rows) ==
    IF rows = <<>> THEN <<>>
    ELSE IF EntryBuilds(fieldnames, Head(rows))
         THEN <<EntryOf(fieldnames, Head(rows))>>
                \o EntriesUntilRaise(fieldnames, Tail(rows))
         ELSE <<>>

\* the rows csv.DictReader yields: the first row gives the field names, empty
\* rows are skipped
DictRows(lines) ==
    LET rows == CsvReader(lines)
    IN  IF rows = <<>> THEN <<>>
        ELSE SelectSeq(Tail(rows), LAMBDA r : r # <<>>)

\* _parse_topic_map on the text of a file (see ParseTopicMap)
ParseTopicMapCsv(file, old) ==
    IF ~file.exists
    THEN [entries |-> old, report |-> <<"could not parse", Len(old)>>]
    ELSE LET rows == DictRows(file.lines)
             fieldnames == IF file.lines = <<>> THEN <<>> ELSE CsvReader(file.lines)[1]
             entries == EntriesUntilRaise(fieldnames, rows)
         IN  IF Len(entries) = Len(rows)
             THEN [entries |-> entries, report |-> <<"parsed", Len(entries)>>]
             ELSE [entries |-> entries, report |-> <<"could not parse", Len(entries)>>]

\* CSVWriterTool._run after the file is written: the header check and the
\* row count
WriterResult(content) ==
    IF content = <<>> THEN <<"ERROR", 0>>
    ELSE LET rows == CsvReader(content)
             header_clean == { Strip(rows[1][i]) : i \in 1..Len(rows[1]) }
             missing == { n \in 1..Len(CSV_HEADERS) : <<CSV_HEADERS[n]>> \notin header_clean }
         IN  IF missing # {} THEN <<"WARNING", Cardinality(missing)>>
             ELSE <<"SUCCESS", Len(rows) - 1>>

\* ---- the tables offered to the writer tool

\* the values of one data row, by column
RowPillar ==
    [name \in { CSV_HEADERS[n] : n \in 1..Len(CSV_HEADERS) } |->
        CASE name = "topic_level" -> <<"pillar">>
          [] name = "topic_name" -> <<"SEO", " ", "basics">>
          [] name = "primary_keyword" -> <<"seo">>
          [] name = "secondary_keywords" -> <<"a", "|", "b">>
          [] name = "search_intent" -> <<"commercial">>
          [] name = "content_type" -> <<"how-to">>
          [] name = "word_count_min" -> <<"1500">>
          [] name = "word_count_max" -> <<"2500">>
          [] name = "target_entities" -> <<"x", ",", " ", "y">>
          [] name = "priority_score" -> <<"9">>
          [] name = "competition_level" -> <<"low">>
          [] OTHER -> <<>>]

RowCluster ==
    [RowPillar EXCEPT !["topic_level"] = <<"cluster">>,
                      !["parent_cluster"] = <<"SEO", " ", "basics">>,
                      !["topic_name"] = <<"Links">>,
                      !["priority_score"] = <<"3">>]

\* word_count_min above word_count_max
RowInverted ==
    [RowPillar EXCEPT !["topic_name"] = <<"Inverted">>,
                      !["word_count_min"] = <<"3000">>]

\* word counts that are not positive
RowNonPositive ==
    [RowPillar EXCEPT !["topic_name"] = <<"Negative">>,
                      !["word_count_min"] = <<"-5">>,
                      !["word_count_max"] = <<"0">>]

\* a priority_score outside 1..10
RowScore11 ==
    [RowPillar EXCEPT !["topic_name"] = <<"Eleven">>,
                      !["priority_score"] = <<"11">>]

RowScore0 ==
    [RowPillar EXCEPT !["topic_name"] = <<"Zero">>,
                      !["priority_score"] = <<"0">>]

CsvRowPool == {RowPillar, RowCluster, RowInverted, RowNonPositive, RowScore11, RowScore0}

\* the header and the data rows an author writes
CsvTables ==
    { [header |-> h, rows |-> r] :
        h \in {CSV_HEADERS, SubSeq(CSV_HEADERS, 1, Len(CSV_HEADERS) - 1)},
        r \in UNION { [1..n -> CsvRowPool] : n \in 0..MaxTopics } }

\* how the author lays the cells out: "plain" quotes the cells that hold a
\* comma or a pipe and separates with a comma, "quoted" quotes every cell,
\* "spaced" is "plain" with a blank after each comma
CsvStyles == {"plain", "quoted", "spaced"}

FormatCell(cell, style) ==
    IF style = "quoted" \/ \E i \in 1..Len(cell) : cell[i] \in {",", "|"}
    THEN <<DQ>> \o cell \o <<DQ>>
    ELSE cell

RECURSIVE FormatLine(_, _)
FormatLine(cells, style) ==
    IF cells = <<>> THEN <<>>
    ELSE IF Len(cells) = 1 THEN FormatCell(cells[1], style)
    ELSE FormatCell(cells[1], style)
           \o (IF style = "spaced" THEN <<",", " ">> ELSE <<",">>)
           \o FormatLine(Tail(cells), style)

\* the csv_content string for a table: the header line, then one line per row
FormatCsv(table, style) ==
    <<FormatLine([n \in 1..Len(table.header) |-> <<table.header[n]>>], style)>>
      \o [r \in 1..Len(table.rows) |->
            FormatLine([n \in 1..Len(table.header) |-> table.rows[r][table.header[n]]],
                       style)]

InitCsv ==
    /\ driver = "csv"
    /\ ChatIdle
    /\ QaIdle
    /\ FlowIdle
    /\ AppIdle
    /\ ConvIdle
    /\ PathIdle
    /\ ThrIdle
    /\ RetIdle
    /\ csv_values \in CsvTables
    /\ \E style \in CsvStyles : csv_content = FormatCsv(csv_values, style)
    /\ csv_file = [exists |-> FALSE, lines |-> <<>>]
    /\ writer_result = <<>>
    /\ csv_entries = <<>>
    /\ csv_report = <<>>
    /\ csv_briefs = <<>>
    /\ csv_pc = "write"

\* CSVWriterTool._run: the content is written as it is, then checked
WriteCsv ==
    /\ driver = "csv"
    /\ csv_pc = "write"
    /\ csv_file' = [exists |-> TRUE, lines |-> csv_content]
    /\ writer_result' = WriterResult(csv_content)
    /\ csv_pc' = "parse"
    /\ UNCHANGED <<csv_values, csv_content, csv_entries, csv_report, csv_briefs>>
    /\ UNCHANGED notCsvVars

\* CSVWriterTool._run when makedirs or open raises: the except clause
WriteCsvRaises ==
    /\ driver = "csv"
    /\ csv_pc = "write"
    /\ writer_result' = <<"ERROR", 0>>
    /\ csv_pc' = "parse"
    /\ UNCHANGED <<csv_values, csv_content, csv_file, csv_entries, csv_report, csv_briefs>>
    /\ UNCHANGED notCsvVars

\* after the research kickoff: if os.path.exists(path): _parse_topic_map()
ParseCsv ==
    /\ driver = "csv"
    /\ csv_pc = "parse"
    /\ IF csv_file.exists
       THEN LET parsed == ParseTopicMapCsv(csv_file, csv_entries)
            IN  /\ csv_entries' = parsed.entries
                /\ csv_report' = parsed.report
       ELSE UNCHANGED <<csv_entries, csv_report>>
    /\ csv_pc' = "briefs"
    /\ UNCHANGED <<csv_values, csv_content, csv_file, writer_result, csv_briefs>>
    /\ UNCHANGED notCsvVars

\* ContentBrief(topic_name=..., priority_score=..., content_type=...,
\* word_count_min=topic.word_count_min, word_count_max=topic.word_count_max)
BriefOfEntry(topic) ==
    [topic_name |-> topic.topic_name,
     filename |-> topic.topic_name \o <<" - ", "today", ".md">>,
     priority_score |-> topic.priority_score,
     content_type |-> topic.content_type,
     word_count_min |-> topic.word_count_min,
     word_count_max |-> topic.word_count_max]

\* one iteration of the brief loop over the topics sorted by priority
DeriveBrief ==
    /\ driver = "csv"
    /\ csv_pc = "briefs"
    /\ Len(csv_briefs) < Len(csv_entries)
    /\ csv_briefs' = Append(csv_briefs,
          BriefOfEntry(SortedByPriority(csv_entries)[Len(csv_briefs) + 1]))
    /\ UNCHANGED <<csv_values, csv_content, csv_file, writer_result, csv_entries,
                   csv_report, csv_pc>>
    /\ UNCHANGED notCsvVars

\* the brief loop ends
BriefsDerived ==
    /\ driver = "csv"
    /\ csv_pc = "briefs"
    /\ Len(csv_briefs) = Len(csv_entries)
    /\ csv_pc' = "done"
    /\ UNCHANGED <<csv_values, csv_content, csv_file, writer_result, csv_entries,
                   csv_report, csv_briefs>>
    /\ UNCHANGED notCsvVars

NextCsv ==
    \/ WriteCsv
    \/ WriteCsvRaises
    \/ ParseCsv
    \/ DeriveBrief
    \/ BriefsDerived

SpecCsv == InitCsv /\ [][NextCsv]_vars

\* ================================== two pipelines at once and their files

notPathVars == <<chatVars, driver, qaVars, flowVars, appVars, convVars, csvVars, thrVars,
                 retVars>>

\* the two pipelines at work at the same time
Sessions == {1, 2}

\* the seed topics the users type
Seeds == {"seo", "crm"}

\* datetime.now().strftime("%Y-%m-%d"): the two pipelines run on the same day
Today == "2026-02-13"

\* os.path.dirname(os.path.dirname(os.path.dirname(os.path.abspath(__file__))))
ProjectDir == <<"project">>

\* ContentFlow: os.path.join(project_dir, "output")
CliOutputDir == ProjectDir \o <<"output">>

\* RunManager.create_run: os.path.join(project_dir, "output", f"run-{run_id}")
WebOutputDir(run_id) == ProjectDir \o <<"output", "run-", run_id>>

\* the topics of a map: they follow the seed topic
TopicsOf(seed) == << <<seed, " ", "basics">>, <<seed, " ", "tools">> >>

\* f"{output_dir}/topic_maps/{seed_topic} - {date}.csv"
TopicMapPath(dir, seed) == dir \o <<"topic_maps", seed, " - ", Today, ".csv">>

\* f"{output_dir}/briefs/{topic_name} - {date}.md"
BriefPath(dir, topic_name) == dir \o <<"briefs">> \o topic_name \o <<" - ", Today, ".md">>

\* f"{output_dir}/articles/{topic_name} - {date}.md"
ArticlePath(dir, topic_name) == dir \o <<"articles">> \o topic_name \o <<" - ", Today, ".md">>

\* os.path.join(output_dir, "briefs", f"Brief Index - {date}.md")
BriefIndexPath(dir) == dir \o <<"briefs", "Brief Index", " - ", Today, ".md">>

\* os.path.join(output_dir, "articles", f"Production Index - {date}.md")
ProductionIndexPath(dir) == dir \o <<"articles", "Production Index", " - ", Today, ".md">>

InitPaths ==
    /\ driver = "paths"
    /\ ChatIdle
    /\ QaIdle
    /\ FlowIdle
    /\ AppIdle
    /\ ConvIdle
    /\ CsvIdle
    /\ ThrIdle
    /\ RetIdle
    /\ session_kind \in [Sessions -> {"cli", "web"}]
    /\ seed_topic \in [Sessions -> Seeds]
    /\ output_dir = [s \in Sessions |-> <<>>]
    /\ session_pc = [s \in Sessions |-> "start"]
    /\ session_i = [s \in Sessions |-> 0]
    /\ files_written = [s \in Sessions |-> {}]

\* ContentFlow.collect_client_context: every CLI session gets the same
\* directory
CollectClientContext(s) ==
    /\ driver = "paths"
    /\ session_kind[s] = "cli"
    /\ session_pc[s] = "start"
    /\ output_dir' = [output_dir EXCEPT ![s] = CliOutputDir]
    /\ session_pc' = [session_pc EXCEPT ![s] = "phase1"]
    /\ UNCHANGED <<session_kind, seed_topic, session_i, files_written>>
    /\ UNCHANGED notPathVars

\* RunManager.create_run: the directory is named after the run id
CreateRunDir(s) ==
    /\ driver = "paths"
    /\ session_kind[s] = "web"
    /\ session_pc[s] = "start"
    /\ \E run_id \in RunIds :
          output_dir' = [output_dir EXCEPT ![s] = WebOutputDir(run_id)]
    /\ session_pc' = [session_pc EXCEPT ![s] = "phase1"]
    /\ UNCHANGED <<session_kind, seed_topic, session_i, files_written>>
    /\ UNCHANGED notPathVars

\* phase 1: the research crew writes the topic map
WriteTopicMapFile(s) ==
    /\ driver = "paths"
    /\ session_pc[s] = "phase1"
    /\ files_written' = [files_written EXCEPT
                           ![s] = @ \cup {TopicMapPath(output_dir[s], seed_topic[s])}]
    /\ session_pc' = [session_pc EXCEPT ![s] = "phase2"]
    /\ session_i' = [session_i EXCEPT ![s] = 0]
    /\ UNCHANGED <<session_kind, seed_topic, output_dir>>
    /\ UNCHANGED notPathVars

\* phase 2: the brief crew writes the brief of the next topic
WriteBriefFile(s) ==
    /\ driver = "paths"
    /\ session_pc[s] = "phase2"
    /\ session_i[s] < Len(TopicsOf(seed_topic[s]))
    /\ files_written' = [files_written EXCEPT
          ![s] = @ \cup {BriefPath(output_dir[s], TopicsOf(seed_topic[s])[session_i[s] + 1])}]
    /\ session_i' = [session_i EXCEPT ![s] = @ + 1]
    /\ UNCHANGED <<session_kind, seed_topic, output_dir, session_pc>>
    /\ UNCHANGED notPathVars

\* phase 2 after the last brief: the CLI flow goes on to the brief index
BriefsWritten(s) ==
    /\ driver = "paths"
    /\ session_pc[s] = "phase2"
    /\ session_i[s] = Len(TopicsOf(seed_topic[s]))
    /\ session_pc' = [session_pc EXCEPT
                        ![s] = IF session_kind[s] = "cli" THEN "brief_index" ELSE "phase3"]
    /\ session_i' = [session_i EXCEPT ![s] = 0]
    /\ UNCHANGED <<session_kind, seed_topic, output_dir, files_written>>
    /\ UNCHANGED notPathVars

\* ContentFlow._generate_brief_index
GenerateBriefIndex(s) ==
    /\ driver = "paths"
    /\ session_pc[s] = "brief_index"
    /\ files_written' = [files_written EXCEPT ![s] = @ \cup {BriefIndexPath(output_dir[s])}]
    /\ session_pc' = [session_pc EXCEPT ![s] = "phase3"]
    /\ UNCHANGED <<session_kind, seed_topic, output_dir, session_i>>
    /\ UNCHANGED notPathVars

\* phase 3: the production crew writes the article of the next brief
WriteArticleFile(s) ==
    /\ driver = "paths"
    /\ session_pc[s] = "phase3"
    /\ session_i[s] < Len(TopicsOf(seed_topic[s]))
    /\ files_written' = [files_written EXCEPT
          ![s] = @ \cup {ArticlePath(output_dir[s], TopicsOf(seed_topic[s])[session_i[s] + 1])}]
    /\ session_i' = [session_i EXCEPT ![s] = @ + 1]
    /\ UNCHANGED <<session_kind, seed_topic, output_dir, session_pc>>
    /\ UNCHANGED notPathVars

\* phase 3 after the last article: the CLI flow goes on to the production
\* index, the web run is complete
ArticlesWritten(s) ==
    /\ driver = "paths"
    /\ session_pc[s] = "phase3"
    /\ session_i[s] = Len(TopicsOf(seed_topic[s]))
    /\ session_pc' = [session_pc EXCEPT
                        ![s] = IF session_kind[s] = "cli" THEN "production_index" ELSE "done"]
    /\ UNCHANGED <<session_kind, seed_topic, output_dir, session_i, files_written>>
    /\ UNCHANGED notPathVars

\* ContentFlow._generate_production_index
GenerateProductionIndex(s) ==
    /\ driver = "paths"
    /\ session_pc[s] = "production_index"
    /\ files_written' = [files_written EXCEPT
                           ![s] = @ \cup {ProductionIndexPath(output_dir[s])}]
    /\ session_pc' = [session_pc EXCEPT ![s] = "done"]
    /\ UNCHANGED <<session_kind, seed_topic, output_dir, session_i>>
    /\ UNCHANGED notPathVars

NextPaths ==
    \E s \in Sessions :
        \/ CollectClientContext(s)
        \/ CreateRunDir(s)
        \/ WriteTopicMapFile(s)
        \/ WriteBriefFile(s)
        \/ BriefsWritten(s)
        \/ GenerateBriefIndex(s)
        \/ WriteArticleFile(s)
        \/ ArticlesWritten(s)
        \/ GenerateProductionIndex(s)

SpecPaths == InitPaths /\ [][NextPaths]_vars

\* ================== the threads of one web run and the dashboard's script

\* the variables of the flows and of the log model this part leaves alone
flowRest == <<briefs, brief_files, flow_pc, sorted_briefs, brief_i, flow_attempt,
              brief_content, inputs, result_text, articles, current_phase,
              index_written, run_progress, run_log>>

logRest == <<drain_pc, delivered>>

notThrVars == <<chatVars, driver, qaVars, flowRest, pipeVars, sortVars, logRest,
                regVars, convVars, csvVars, pathVars, retVars>>

\* what the work of a thread leaves alone
flowWorkRest == <<brief_files, flow_pc, sorted_briefs, brief_i, flow_attempt,
                  brief_content, inputs, result_text, current_phase,
                  index_written, run_progress, run_log>>

pipeWorkRest == <<topic_edit, sorted_topics, topic_i, csv_edited, approved>>

notWorkVars == <<chatVars, driver, qaVars, flowWorkRest, pipeWorkRest, sortVars,
                 logVars, regVars, convVars, csvVars, pathVars, retVars,
                 run_phase, run_error, script_pc, shown_error, shown_button, click>>

\* the phases, each with a thread of its own
Phases == {1, 2, 3}

\* what the research crew of the run may leave at the path of the topic map
ThreadResearchFiles ==
    {NoFile, CsvFile(<<RowA>>), CsvFile(<<RowB, RowA>>),
     CsvFile(<<RowA, [RowB EXCEPT !.priority_score = "high"]>>)}

\* RunPhase.PHASEk_RUNNING
PhaseRunning(k) ==
    CASE k = 1 -> "phase1_running"
      [] k = 2 -> "phase2_running"
      [] k = 3 -> "phase3_running"

\* the phase a thread sets when its work is over
PhaseOver(k) ==
    CASE k = 1 -> "phase1_review"
      [] k = 2 -> "phase2_review"
      [] k = 3 -> "complete"

\* run.phase.value.endswith("_running")
EndsWithRunning(phase) == \E k \in Phases : phase = PhaseRunning(k)

\* the dict emit_log puts on the queue, for the messages "Phase k started",
\* "Phase k complete" ("Pipeline complete" for k = 3) and "Phase k error"
PhaseEvent(k, kind, level) ==
    [source |-> "System", phase |-> k, kind |-> kind, level |-> level]

\* the run does not exist yet: the form of the dashboard is on the page
InitThreads ==
    /\ driver = "threads"
    /\ ChatIdle
    /\ QaIdle
    /\ FlowIdle
    /\ AppIdle
    /\ ConvIdle
    /\ CsvIdle
    /\ PathIdle
    /\ RetIdle
    /\ thread_pc = [k \in Phases |-> "idle"]
    /\ script_pc = "idle"
    /\ shown_error = "nothing"
    /\ shown_button = "none"
    /\ click = "none"

\* the form is submitted: create_run, start_phase1 (phase set, thread
\* started), the run selected, the logs emptied, st.rerun()
SubmitForm ==
    /\ driver = "threads"
    /\ run_phase = "setup"
    /\ script_pc = "idle"
    /\ run_phase' = PhaseRunning(1)
    /\ thread_pc' = [thread_pc EXCEPT ![1] = "started"]
    /\ current_run_id' = "run"
    /\ session_logs' = <<>>
    /\ script_pc' = "drain"
    /\ UNCHANGED <<run_error, log_queue, emitted, shown_error, shown_button, click>>
    /\ UNCHANGED notThrVars

\* _run_phasek: run.emit_log("System", "Phase k started: ...")
ThreadEmitsStarted(k) ==
    /\ driver = "threads"
    /\ thread_pc[k] = "started"
    /\ log_queue' = QueuePut(log_queue, PhaseEvent(k, "started", "info"))
    /\ emitted' = Append(emitted, PhaseEvent(k, "started", "info"))
    /\ thread_pc' = [thread_pc EXCEPT ![k] = "working"]
    /\ UNCHANGED <<run_phase, run_error, current_run_id, session_logs, script_pc,
                   shown_error, shown_button, click>>
    /\ UNCHANGED notThrVars

\* _run_phase1: the research kickoff returns and the CSV, if it is there, is
\* parsed
ThreadResearches ==
    /\ driver = "threads"
    /\ thread_pc[1] = "working"
    /\ \E file \in ThreadResearchFiles :
          LET parsed == ParseIfExists(file, topic_entries)
          IN  /\ topic_file' = file
              /\ topic_entries' = parsed.entries
              /\ parse_report' = Reported(parse_report, parsed)
    /\ thread_pc' = [thread_pc EXCEPT ![1] = "finishing"]
    /\ UNCHANGED <<briefs, articles>>
    /\ UNCHANGED notWorkVars

\* _run_phase2: one pass of the loop over sorted_topics, the kickoff returns
\* and the brief is appended
ThreadWritesBrief ==
    /\ driver = "threads"
    /\ thread_pc[2] = "working"
    /\ LET sorted == SortedByPriority(topic_entries)
           i == Len(briefs) + 1
       IN  /\ i <= Len(sorted)
           /\ briefs' = Append(briefs, NewBrief(sorted[i]))
           /\ thread_pc' = [thread_pc EXCEPT
                               ![2] = IF i = Len(sorted) THEN "finishing" ELSE "working"]
    /\ UNCHANGED <<topic_file, topic_entries, parse_report, articles>>
    /\ UNCHANGED notWorkVars

\* _run_phase3: one pass of the loop over sorted_briefs, the attempts end and
\* the article is appended
ThreadWritesArticle ==
    /\ driver = "threads"
    /\ thread_pc[3] = "working"
    /\ LET sorted == SortedByPriority(briefs)
           i == Len(articles) + 1
       IN  /\ i <= Len(sorted)
           /\ \E passed \in BOOLEAN :
                 articles' = Append(articles,
                                NewArticle(sorted[i], passed,
                                           IF passed THEN 1 ELSE FlowMaxAttempts))
           /\ thread_pc' = [thread_pc EXCEPT
                               ![3] = IF i = Len(sorted) THEN "finishing" ELSE "working"]
    /\ UNCHANGED <<topic_file, topic_entries, parse_report, briefs>>
    /\ UNCHANGED notWorkVars

\* variant: the phase is set while the loop has passes left
ThreadSetsPhaseOver_Early(k) ==
    /\ driver = "threads"
    /\ thread_pc[k] \in {"working", "finishing"}
    /\ run_phase' = PhaseOver(k)
    /\ thread_pc' = [thread_pc EXCEPT ![k] = "completing"]
    /\ UNCHANGED <<run_error, log_queue, emitted, current_run_id, session_logs,
                   script_pc, shown_error, shown_button, click>>
    /\ UNCHANGED notThrVars

\* _run_phasek: the work is done; run.phase = PHASEk_REVIEW (COMPLETE for k = 3)
ThreadSetsPhaseOver(k) ==
    /\ driver = "threads"
    /\ thread_pc[k] = "finishing"
    /\ run_phase' = PhaseOver(k)
    /\ thread_pc' = [thread_pc EXCEPT ![k] = "completing"]
    /\ UNCHANGED <<run_error, log_queue, emitted, current_run_id, session_logs,
                   script_pc, shown_error, shown_button, click>>
    /\ UNCHANGED notThrVars

\* _run_phasek: run.emit_log("System", "Phase k complete ...", "success"), the
\* last statement of the thread
ThreadEmitsComplete(k) ==
    /\ driver = "threads"
    /\ thread_pc[k] = "completing"
    /\ log_queue' = QueuePut(log_queue, PhaseEvent(k, "complete", "success"))
    /\ emitted' = Append(emitted, PhaseEvent(k, "complete", "success"))
    /\ thread_pc' = [thread_pc EXCEPT ![k] = "ended"]
    /\ UNCHANGED <<run_phase, run_error, current_run_id, session_logs, script_pc,
                   shown_error, shown_button, click>>
    /\ UNCHANGED notThrVars

\* _run_phasek: the work raises; except clause, run.phase = RunPhase.ERROR
ThreadSetsPhaseError(k) ==
    /\ driver = "threads"
    /\ thread_pc[k] = "working"
    /\ run_phase' = "error"
    /\ thread_pc' = [thread_pc EXCEPT ![k] = "except"]
    /\ UNCHANGED <<run_error, log_queue, emitted, current_run_id, session_logs,
                   script_pc, shown_error, shown_button, click>>
    /\ UNCHANGED notThrVars

\* except clause, next statement: run.error = str(e)
ThreadSetsError(k) ==
    /\ driver = "threads"
    /\ thread_pc[k] = "except"
    /\ run_error' = "kickoff failed"
    /\ thread_pc' = [thread_pc EXCEPT ![k] = "except_log"]
    /\ UNCHANGED <<run_phase, log_queue, emitted, current_run_id, session_logs,
                   script_pc, shown_error, shown_button, click>>
    /\ UNCHANGED notThrVars

\* except clause, last statement: run.emit_log("System", "Phase k error: ...", "error")
ThreadEmitsError(k) ==
    /\ driver = "threads"
    /\ thread_pc[k] = "except_log"
    /\ log_queue' = QueuePut(log_queue, PhaseEvent(k, "error", "error"))
    /\ emitted' = Append(emitted, PhaseEvent(k, "error", "error"))
    /\ thread_pc' = [thread_pc EXCEPT ![k] = "ended"]
    /\ UNCHANGED <<run_phase, run_error, current_run_id, session_logs, script_pc,
                   shown_error, shown_button, click>>
    /\ UNCHANGED notThrVars

\* render_run_detail: drain_logs(run) takes what the queue holds
ScriptDrains ==
    /\ driver = "threads"
    /\ script_pc = "drain"
    /\ session_logs' = session_logs \o log_queue
    /\ log_queue' = <<>>
    /\ script_pc' = "error_check"
    /\ UNCHANGED <<run_phase, run_error, emitted, current_run_id, thread_pc,
                   shown_error, shown_button, click>>
    /\ UNCHANGED notThrVars

\* render_run_detail: `if run.phase == RunPhase.ERROR:` reads the phase
ScriptChecksError ==
    /\ driver = "threads"
    /\ script_pc = "error_check"
    /\ script_pc' = IF run_phase = "error" THEN "read_error" ELSE "buttons"
    /\ shown_error' = "nothing"
    /\ UNCHANGED <<run_phase, run_error, log_queue, emitted, current_run_id,
                   session_logs, thread_pc, shown_button, click>>
    /\ UNCHANGED notThrVars

\* render_run_detail: st.error(f"Pipeline Error: {run.error}") reads the error
ScriptShowsError ==
    /\ driver = "threads"
    /\ script_pc = "read_error"
    /\ shown_error' = run_error
    /\ script_pc' = "buttons"
    /\ UNCHANGED <<run_phase, run_error, log_queue, emitted, current_run_id,
                   session_logs, thread_pc, shown_button, click>>
    /\ UNCHANGED notThrVars

\* variant: the phase-1 button is drawn in both review phases
ButtonOf_BothReviews(phase) ==
    CASE phase \in {"phase1_review", "phase2_review"} /\ topic_entries # <<>>
              -> "approve_p1"
      [] OTHER -> "none"

\* the approve button the page shows in a phase: `if run.state.topic_entries`
\* in the phase-1 review, `if run.state.briefs` in the phase-2 review
ButtonOf(phase) ==
    CASE phase = "phase1_review" /\ topic_entries # <<>> -> "approve_p1"
      [] phase = "phase2_review" /\ briefs # <<>> -> "approve_p2"
      [] OTHER -> "none"

\* the phase an approve button starts
PhaseOfButton(button) == IF button = "approve_p1" THEN 2 ELSE 3

\* render_run_detail: the review sections; the button of the phase was not
\* the one clicked, so it is drawn (or no button at all)
ScriptShowsButton ==
    /\ driver = "threads"
    /\ script_pc = "buttons"
    /\ ~(ButtonOf(run_phase) # "none" /\ click = ButtonOf(run_phase))
    /\ shown_button' = ButtonOf(run_phase)
    /\ click' = "none"
    /\ script_pc' = "refresh_check"
    /\ UNCHANGED <<run_phase, run_error, log_queue, emitted, current_run_id,
                   session_logs, thread_pc, shown_error>>
    /\ UNCHANGED notThrVars

\* render_run_detail: st.button(...) is true for the button clicked:
\* rm.start_phase2(run) or rm.start_phase3(run) (phase set, thread started),
\* then st.rerun()
ScriptStartsPhase ==
    /\ driver = "threads"
    /\ script_pc = "buttons"
    /\ ButtonOf(run_phase) # "none"
    /\ click = ButtonOf(run_phase)
    /\ LET k == PhaseOfButton(click)
       IN  /\ run_phase' = PhaseRunning(k)
           /\ thread_pc' = [thread_pc EXCEPT ![k] = "started"]
    /\ click' = "none"
    /\ shown_button' = "none"
    /\ script_pc' = "drain"
    /\ UNCHANGED <<run_error, log_queue, emitted, current_run_id, session_logs,
                   shown_error>>
    /\ UNCHANGED notThrVars

\* render_run_detail, last statement: `if run.phase.value.endswith("_running")`
ScriptChecksRunning ==
    /\ driver = "threads"
    /\ script_pc = "refresh_check"
    /\ script_pc' = IF EndsWithRunning(run_phase) THEN "sleep" ELSE "idle"
    /\ UNCHANGED <<run_phase, run_error, log_queue, emitted, current_run_id,
                   session_logs, thread_pc, shown_error, shown_button, click>>
    /\ UNCHANGED notThrVars

\* time.sleep(2) is over: st.rerun() starts the next script run
ScriptReruns ==
    /\ driver = "threads"
    /\ script_pc = "sleep"
    /\ script_pc' = "drain"
    /\ UNCHANGED <<run_phase, run_error, log_queue, emitted, current_run_id,
                   session_logs, thread_pc, shown_error, shown_button, click>>
    /\ UNCHANGED notThrVars

\* the user clicks the approve button on the page: a script run starts
UserClicksApprove ==
    /\ driver = "threads"
    /\ script_pc \in {"idle", "sleep"}
    /\ shown_button # "none"
    /\ click' = shown_button
    /\ script_pc' = "drain"
    /\ UNCHANGED <<run_phase, run_error, log_queue, emitted, current_run_id,
                   session_logs, thread_pc, shown_error, shown_button>>
    /\ UNCHANGED notThrVars

\* the user does something else on the page of the run that starts a script
\* run (edits a cell of the table, asks for a rerun)
UserReruns ==
    /\ driver = "threads"
    /\ script_pc = "idle"
    /\ run_phase # "setup"
    /\ click' = "none"
    /\ script_pc' = "drain"
    /\ UNCHANGED <<run_phase, run_error, log_queue, emitted, current_run_id,
                   session_logs, thread_pc, shown_error, shown_button>>
    /\ UNCHANGED notThrVars

\* a step of a background thread
ThreadStep ==
    \E k \in Phases :
        \/ ThreadEmitsStarted(k)
        \/ ThreadResearches
        \/ ThreadWritesBrief
        \/ ThreadWritesArticle
        \/ ThreadSetsPhaseOver(k)
        \/ ThreadEmitsComplete(k)
        \/ ThreadSetsPhaseError(k)
        \/ ThreadSetsError(k)
        \/ ThreadEmitsError(k)

\* a step the script takes on its own
ScriptStep ==
    \/ ScriptDrains
    \/ ScriptChecksError
    \/ ScriptShowsError
    \/ ScriptShowsButton
    \/ ScriptStartsPhase
    \/ ScriptChecksRunning
    \/ ScriptReruns

\* a step that takes an action of the user
UserStep ==
    \/ SubmitForm
    \/ UserClicksApprove
    \/ UserReruns

NextThreads ==
    \/ ThreadStep
    \/ ScriptStep
    \/ UserStep

SpecThreads == InitThreads /\ [][NextThreads]_vars

\* the threads and the script of the dashboard are scheduled fairly; the
\* user is not bound to do anything
SpecThreadsFair ==
    /\ InitThreads
    /\ [][NextThreads]_vars
    /\ WF_vars(ThreadStep)
    /\ WF_vars(ScriptStep)

\* ===================================================== properties of chat()

\* a response that asks for tools, as the provider signals it
ToolRequest(resp) ==
    /\ resp.stop_reason = "tool_use"
    /\ \E i \in DOMAIN resp.content : resp.content[i].type = "tool_use"

\* a response with no tool request in it
PlainText(resp) == \A i \in DOMAIN resp.content : resp.content[i].type # "tool_use"

\* the name is a key of the registry the caller passed
InRegistry(name) == tools.given /\ name \in tools.names

\* the tool requests of a response, in order
RECURSIVE Requests(_)
Requests(content) ==
    IF content = <<>> THEN <<>>
    ELSE (IF content[1].type = "tool_use" THEN <<content[1]>> ELSE <<>>)
         \o Requests(Tail(content))

\* the tool requests of the first k responses, in order
RECURSIVE RequestsUpTo(_)
RequestsUpTo(k) ==
    IF k = 0 THEN <<>> ELSE RequestsUpTo(k - 1) \o Requests(responses[k].content)

\* the calls that serving a sequence of requests makes: one per request whose
\* name is registered, with the request's arguments (none when it has none)
RECURSIVE ExpectedCalls(_)
ExpectedCalls(reqs) ==
    IF reqs = <<>> THEN <<>>
    ELSE (IF InRegistry(reqs[1].name)
          THEN <<[name |-> reqs[1].name,
                  args |-> IF reqs[1].input = "None" THEN "{}" ELSE reqs[1].input,
                  id |-> reqs[1].id]>>
          ELSE <<>>)
         \o ExpectedCalls(Tail(reqs))

MadeCalls ==
    [i \in DOMAIN invocations |->
        [name |-> invocations[i].name, args |-> invocations[i].args,
         id |-> invocations[i].id]]

\* the results turn that the send after response n carried
ResultsTurn(n) == sends[n + 1][Len(sends[n + 1])]

AllToolRequests == \A i \in DOMAIN responses : ToolRequest(responses[i])

\* C1 (as stated): against a provider that answers every send with a tool
\* request, chat(max_tool_rounds = N) ends after exactly N send-and-respond
\* exchanges.
C1_ExactlyNRounds ==
    (chat_pc = "done" /\ AllToolRequests) => Len(sends) = max_tool_rounds

\* C1 (amended): against a provider that answers every send with a tool
\* request, chat(max_tool_rounds = N) ends after exactly N + 1 send-and-respond
\* exchanges (the initial one and one per executed tool round, N of them), never
\* sends an (N + 2)-th time, does not raise, and returns the text of the last
\* response, which may be empty.
C1_TerminatesAfterNPlusOneSends ==
    (AllToolRequests /\ Len(responses) >= 1 /\ Len(responses) = Len(sends)) =>
        /\ chat_pc # "raised"
        /\ chat_err = "none"
        /\ Len(sends) <= max_tool_rounds + 1
        /\ Len(sends) = max_tool_rounds + 1 => chat_pc \in {"loop", "done"}
        /\ chat_pc = "done" =>
              /\ Len(sends) = max_tool_rounds + 1
              /\ rounds = max_tool_rounds
              /\ chat_ret \in {EmptyText, T2}

C1_Witness ==
    /\ chat_pc = "done"
    /\ AllToolRequests
    /\ max_tool_rounds = MaxRounds
    /\ Len(sends) = MaxRounds + 1
    /\ chat_ret = EmptyText

\* C2: if the first k responses request tools and response k + 1 is plain
\* text T with no tool request, chat returns T after exactly k + 1 sends and
\* has called every requested registered tool exactly once, in request order,
\* with the arguments of its request.
C2_Convergence ==
    \A k \in 0..Len(responses) :
        ( /\ chat_pc = "done"
          /\ Len(responses) = k + 1
          /\ \A i \in 1..k : ToolRequest(responses[i])
          /\ PlainText(responses[k + 1]) ) =>
            /\ Len(sends) = k + 1
            /\ k <= max_tool_rounds
            /\ MadeCalls = ExpectedCalls(RequestsUpTo(k))
            /\ \A t \in {T1, T2} :
                  responses[k + 1].content = <<TextBlock(t)>> => chat_ret = t
            /\ responses[k + 1].content = <<>> => chat_ret = <<>>

C2_Witness ==
    /\ chat_pc = "done"
    /\ Len(responses) = 2
    /\ Len(sends) = 2
    /\ responses[1].content = <<ToolUseBlock(<<1, 1>>, "search", "{query: x}")>>
    /\ responses[2] = [stop_reason |-> "end_turn", content |-> <<TextBlock(T1)>>]
    /\ chat_ret = T1
    /\ Len(invocations) = 1
    /\ invocations[1].name = "search"
    /\ invocations[1].args = "{query: x}"

\* C3: when a registered tool raises, chat does not raise; the result
\* recorded for that request is an error string naming the tool and carrying
\* the exception's message, the other requests of the round are still served,
\* and the next send carries a results turn with that error string under the
\* request's id.
C3_ToolFailureIsolated ==
    /\ chat_err \in {"none", "ValueError", "ProviderError"}
    /\ \A i \in DOMAIN invocations :
          invocations[i].raised =>
            LET id == invocations[i].id
                n == id[1]
                reqs == Requests(responses[n].content)
            IN  /\ chat_pc = "tools" /\ n = Len(responses) =>
                      \/ Len(tool_results) < Len(reqs)
                      \/ ENABLED (SendToolResults \/ SendToolResultsRaises)
                /\ Len(sends) > n =>
                      /\ ResultsTurn(n).role = "user"
                      /\ Len(ResultsTurn(n).content) = Len(reqs)
                      /\ \E j \in DOMAIN reqs :
                            /\ reqs[j].id = id
                            /\ ResultsTurn(n).content[j].tool_use_id = id
                            /\ ResultsTurn(n).content[j].content =
                                  <<"Error calling ", invocations[i].name, ": ", "boom">>
                      /\ \A j \in DOMAIN reqs :
                            InRegistry(reqs[j].name) =>
                               \E m \in DOMAIN invocations :
                                  invocations[m].id = reqs[j].id

C3_Witness ==
    /\ Len(sends) = 2
    /\ Len(responses) = 2
    /\ Len(invocations) = 2
    /\ invocations[1].raised
    /\ invocations[1].name = "file_writer"
    /\ ~invocations[2].raised
    /\ chat_pc = "done"

\* C9: an error raised by a provider send (the first or a later one) leaves
\* chat as that error: chat stops there, and from then on it makes no send
\* and no tool call, the failed send included (no retry).
C9_ProviderErrorPropagates ==
    /\ [](Len(sends) > Len(responses) =>
            /\ chat_pc = "raised"
            /\ chat_err = "ProviderError"
            /\ Len(sends) = Len(responses) + 1)
    /\ [](chat_err = "ProviderError" => Len(sends) > Len(responses))
    /\ [][chat_pc = "raised" =>
            /\ sends' = sends
            /\ invocations' = invocations
            /\ responses' = responses
            /\ chat_pc' = "raised"]_vars

C9_Witness ==
    /\ chat_pc = "raised"
    /\ chat_err = "ProviderError"
    /\ Len(sends) = 2
    /\ Len(responses) = 1
    /\ Len(invocations) >= 1

\* C10: a tool request whose name is not in the registry (or made when no
\* registry was given) neither raises nor ends the conversation: no tool is
\* called for it, its entry in the round's results turn is the string
\* "Unknown function: <name>" under its id, and the other requests of the
\* round are still served.
C10_UnknownToolReported ==
    /\ chat_err \in {"none", "ValueError", "ProviderError"}
    /\ \A m \in DOMAIN invocations : InRegistry(invocations[m].name)
    /\ (chat_pc = "done" /\ Len(responses) >= 1
          /\ ToolRequest(responses[Len(responses)])) => rounds = max_tool_rounds
    /\ \A n \in DOMAIN responses :
          Len(sends) > n =>
            LET reqs == Requests(responses[n].content)
            IN  /\ Len(ResultsTurn(n).content) = Len(reqs)
                /\ \A j \in DOMAIN reqs :
                      /\ ResultsTurn(n).content[j].tool_use_id = reqs[j].id
                      /\ ~InRegistry(reqs[j].name) =>
                            ResultsTurn(n).content[j].content =
                               <<"Unknown function: ", reqs[j].name>>
                      /\ InRegistry(reqs[j].name) =>
                            \E m \in DOMAIN invocations :
                               invocations[m].id = reqs[j].id

C10_Witness ==
    /\ Len(sends) = 2
    /\ Len(responses) = 2
    /\ tools.given
    /\ responses[1].content =
          <<ToolUseBlock(<<1, 1>>, "ghost_tool", "{query: x}"),
            ToolUseBlock(<<1, 2>>, "search", "{query: x}")>>
    /\ Len(invocations) = 1
    /\ invocations[1].name = "search"
    /\ chat_pc = "done"

C10_WitnessNoRegistry ==
    /\ Len(sends) = 2
    /\ Len(responses) = 2
    /\ ~tools.given
    /\ responses[1].content = <<ToolUseBlock(<<1, 1>>, "search", "{query: x}")>>
    /\ invocations = <<>>
    /\ chat_pc = "done"

\* C11: the history starts with the user prompt; every send carries the
\* whole history, which then holds the prompt and two turns per round served
\* so far: the assistant turn with the content of the response, then a single
\* user turn with one tool_result per request of that response, in request
\* order, each under the id of its request.  Between rounds and at the return
\* the history has 1 + 2 * rounds turns.
C11_TwoTurnsPerRound ==
    /\ messages # <<>> => messages[1] = [role |-> "user", content |-> UserPrompt]
    /\ chat_pc \in {"loop", "done"} => Len(messages) = 1 + 2 * rounds
    /\ \A n \in DOMAIN sends :
          /\ Len(sends[n]) = 2 * n - 1
          /\ SubSeq(messages, 1, Len(sends[n])) = sends[n]
          /\ n >= 2 =>
                LET reqs == Requests(responses[n - 1].content)
                    asst == sends[n][2 * n - 2]
                    user == sends[n][2 * n - 1]
                IN  /\ SubSeq(sends[n], 1, 2 * n - 3) = sends[n - 1]
                    /\ asst = [role |-> "assistant",
                               content |-> responses[n - 1].content]
                    /\ reqs # <<>>
                    /\ user.role = "user"
                    /\ Len(user.content) = Len(reqs)
                    /\ \A j \in DOMAIN reqs :
                          /\ user.content[j].type = "tool_result"
                          /\ user.content[j].tool_use_id = reqs[j].id

C11_Witness ==
    /\ chat_pc = "done"
    /\ rounds = 2
    /\ Len(messages) = 5
    /\ Len(Requests(responses[1].content)) = 2
    /\ Len(responses[1].content) = 3
    /\ Len(messages[3].content) = 2

\* ===================================== properties of run_production(), flows

\* the text holds the letters p, a, s, s, e, d in a row, each in either case
SaysPassed(text) ==
    \E i \in 1..(Len(text) - 5) :
        /\ text[i] \in {"p", "P"}
        /\ text[i + 1] \in {"a", "A"}
        /\ text[i + 2] \in {"s", "S"}
        /\ text[i + 3] \in {"s", "S"}
        /\ text[i + 4] \in {"e", "E"}
        /\ text[i + 5] \in {"d", "D"}

\* C4: when the reviews of attempts 1..k-1 fail and the review of attempt k
\* passes (1 <= k <= max_qa_attempts), run_production returns (the text of
\* the k-th review, True, k) having made exactly k review calls, none after
\* the pass.
C4_PassAtAttemptK ==
    \A k \in DOMAIN review_outputs :
        ( /\ \A i \in 1..(k - 1) : ~SaysPassed(review_outputs[i])
          /\ SaysPassed(review_outputs[k]) ) =>
            /\ qa_pc = "done"
            /\ qa_ret = <<review_outputs[k], TRUE, k>>
            /\ Len(review_outputs) = k
            /\ Len(review_inputs) = k
            /\ k <= max_qa_attempts

C4_Witness ==
    /\ qa_pc = "done"
    /\ Len(review_outputs) = 3
    /\ review_outputs[1] = ReviewFlagged
    /\ review_outputs[2] = ReviewNearMiss
    /\ review_outputs[3] = ReviewPassed
    /\ qa_ret = <<ReviewPassed, TRUE, 3>>

\* C5: when no review passes, run_production returns (the output of the last
\* review, False, max_qa_attempts) having made exactly max_qa_attempts review
\* calls; it never makes more review calls than max_qa_attempts.
C5_Exhaustion ==
    /\ Len(review_inputs) <= max_qa_attempts
    /\ ( /\ qa_pc = "done"
         /\ \A i \in DOMAIN review_outputs : ~SaysPassed(review_outputs[i]) ) =>
            /\ Len(review_outputs) = max_qa_attempts
            /\ Len(review_inputs) = max_qa_attempts
            /\ max_qa_attempts >= 1 =>
                  qa_ret = <<review_outputs[max_qa_attempts], FALSE, max_qa_attempts>>

C5_Witness ==
    /\ qa_pc = "done"
    /\ max_qa_attempts = MaxAttempts
    /\ Len(review_outputs) = MaxAttempts
    /\ \A i \in DOMAIN review_outputs : ~SaysPassed(review_outputs[i])
    /\ qa_ret[2] = FALSE

\* C6 (as stated): run_production never returns a result that no review
\* produced: every call that returns has made at least one review, so a call
\* with max_qa_attempts = 0 does not return.
C6_AtLeastOneReview ==
    (driver = "run_production" /\ qa_pc = "done") =>
        /\ Len(review_outputs) >= 1
        /\ max_qa_attempts >= 1

\* C7: a review output is treated as passed exactly when it holds the letters
\* 'passed' somewhere, in any letter case, "QA Status: FLAGGED" with 'passed'
\* elsewhere included; in run_production and in the attempt loops of the CLI
\* and web production phases alike.
C7_PassedIffSaysPassed ==
    /\ \A i \in DOMAIN review_outputs :
          (i = Len(review_outputs) /\ qa_pc = "done" /\ qa_passed /\ qa_ret[2])
              <=> SaysPassed(review_outputs[i])
    /\ (driver \in {"cli", "web"} /\ (flow_attempt > 1 \/ articles # <<>>)) =>
          IF articles # <<>> /\ (flow_attempt = 1 \/ flow_pc = "done")
          THEN /\ articles[Len(articles)].qa_status = "PASSED"
                     <=> SaysPassed(result_text)
               /\ articles[Len(articles)].qa_status = "FLAGGED"
                     <=> ~SaysPassed(result_text)
          ELSE ~SaysPassed(result_text)

C7_Witness ==
    /\ driver = "web"
    /\ articles # <<>>
    /\ flow_pc = "done"
    /\ result_text = ReviewFlaggedEcho
    /\ articles[Len(articles)].qa_status = "PASSED"

C7_WitnessCli ==
    /\ driver = "cli"
    /\ articles # <<>>
    /\ flow_pc = "done"
    /\ result_text = ReviewFlaggedEcho
    /\ articles[Len(articles)].qa_status = "PASSED"

C7_WitnessRunProduction ==
    /\ driver = "run_production"
    /\ qa_pc = "done"
    /\ qa_ret = <<ReviewFlaggedEcho, TRUE, 2>>

\* C8: the writer is called exactly once, before the first review; the first
\* review is given the writer's text and every later review is given the
\* previous review's output verbatim.
C8_WriterOnceThenChain ==
    /\ Len(writer_calls) <= 1
    /\ qa_pc \in {"review", "done"} =>
          Len(writer_calls) = 1 /\ ~writer_calls[1].raised
    /\ Len(review_outputs) <= Len(review_inputs)
    /\ Len(review_inputs) <= Len(review_outputs) + 1
    /\ review_inputs # <<>> =>
          /\ Len(writer_calls) = 1
          /\ review_inputs[1] = writer_calls[1].text
    /\ \A i \in 2..Len(review_inputs) : review_inputs[i] = review_outputs[i - 1]

C8_Witness ==
    /\ Len(review_inputs) = 3
    /\ writer_calls = <<[raised |-> FALSE, text |-> DraftPassed]>>
    /\ review_inputs = <<DraftPassed, ReviewFlagged, ReviewNearMiss>>

\* the last attempt of a brief returns a text that is not a pass
LastAttemptFails ==
    /\ driver \in {"cli", "web"}
    /\ flow_pc = "attempt"
    /\ flow_attempt = FlowMaxAttempts
    /\ flow_pc' # "failed"
    /\ ~IsPassed(result_text')

\* C17: in the production phase of either flow, when the third attempt of a
\* brief fails too (attempt 3 is reached only after two failed attempts), the
\* brief is recorded as an article with qa_status FLAGGED and qa_attempts 3;
\* the loop then goes on to the next brief, or, after the last brief, the phase
\* ends normally (the web run in phase COMPLETE); the run phase is ERROR only
\* after a kickoff has raised, and a phase that ends normally has one article
\* per brief.
C17_FlaggedIsNotAnError ==
    /\ []((driver \in {"cli", "web"} /\ flow_pc = "attempt" /\ flow_attempt > 1)
             => ~IsPassed(result_text))
    /\ [][LastAttemptFails =>
            /\ articles' = Append(articles,
                  [topic_name |-> sorted_briefs[brief_i].topic_name,
                   filename |-> <<sorted_briefs[brief_i].topic_name, " - ", "today", ".md">>,
                   word_count |-> 0,
                   qa_status |-> "FLAGGED",
                   qa_attempts |-> 3,
                   flagged_items |-> <<>>])
            /\ run_phase' # "error"
            /\ run_error' = "None"
            /\ IF brief_i < Len(sorted_briefs)
               THEN /\ brief_i' = brief_i + 1
                    /\ flow_attempt' = 1
                    /\ flow_pc' = "attempt"
               ELSE /\ flow_pc' = "done"
                    /\ driver = "web" => run_phase' = "complete"]_vars
    /\ [](driver \in {"cli", "web"} =>
             /\ (run_phase = "error" \/ run_error # "None") => flow_pc = "failed"
             /\ flow_pc = "done" =>
                   /\ Len(articles) = Len(briefs)
                   /\ driver = "web" => run_phase = "complete"
                   /\ driver = "cli" => index_written)

\* a brief exhausted its attempts, the next brief was processed, the run is
\* complete
C17_Witness ==
    /\ driver = "web"
    /\ flow_pc = "done"
    /\ run_phase = "complete"
    /\ Len(articles) = 2
    /\ articles[1].qa_status = "FLAGGED"
    /\ articles[1].qa_attempts = 3

C17_WitnessCli ==
    /\ driver = "cli"
    /\ flow_pc = "done"
    /\ Len(articles) = 2
    /\ articles[1].qa_status = "FLAGGED"
    /\ articles[1].qa_attempts = 3
    /\ articles[2].qa_status = "PASSED"

\* ========================================== properties of the pipeline

\* the number of the phase the run has started last: state.current_phase in
\* the CLI flow, run.progress["phase"] in the web flow
PhaseStarted == IF driver = "cli" THEN current_phase ELSE run_progress.phase

\* the work of the phase started last is over
PhaseFinished ==
    IF driver = "cli"
    THEN \/ current_phase = 1 /\ flow_pc \in {"checkpoint1", "checkpoint1_wait"}
         \/ current_phase = 2 /\ flow_pc = "checkpoint2"
              /\ Len(briefs) = Len(sorted_topics)
    ELSE \/ run_phase = "phase1_review"
         \/ run_phase = "phase2_review" /\ Len(briefs) = Len(sorted_topics)

\* C12: the phases start in the order 1, 2, 3 (then finalize in the CLI
\* flow), each one only when the phase before it is over and its checkpoint
\* has been approved; a checkpoint is approved only when its phase is over;
\* briefs exist only after the approval of checkpoint 1 and articles only
\* after the approval of checkpoint 2.
C12_PhasesInOrder ==
    /\ [](approved \in {<<>>, <<1>>, <<1, 2>>})
    /\ [](briefs # <<>> => PhaseStarted >= 2 /\ Len(approved) >= 1)
    /\ [](articles # <<>> => PhaseStarted = 3 /\ approved = <<1, 2>>)
    /\ [](PhaseStarted >= 2 => Len(approved) >= 1)
    /\ [](PhaseStarted = 3 => approved = <<1, 2>>)
    /\ [][PhaseStarted' \in {PhaseStarted, PhaseStarted + 1}]_vars
    /\ [][approved' # approved =>
            /\ PhaseFinished
            /\ Len(approved') = PhaseStarted]_vars
    /\ [][briefs' # briefs => PhaseStarted = 2 /\ PhaseStarted' = 2]_vars
    /\ [][articles' # articles => PhaseStarted = 3 /\ PhaseStarted' = 3]_vars
    /\ [][flow_pc' = "finalized" =>
            /\ PhaseStarted = 3
            /\ flow_pc = "done"
            /\ Len(articles) = Len(sorted_briefs)]_vars

C12_Witness ==
    /\ driver = "cli"
    /\ flow_pc = "finalized"
    /\ Len(briefs) = 2
    /\ Len(articles) = 2
    /\ approved = <<1, 2>>

C12_WitnessWeb ==
    /\ driver = "web"
    /\ run_phase = "complete"
    /\ Len(briefs) = 2
    /\ Len(articles) = 2
    /\ approved = <<1, 2>>

C13_WitnessPhase1 ==
    /\ driver = "web"
    /\ run_phase = "error"
    /\ run_progress.phase = 1

C13_WitnessPhase3 ==
    /\ driver = "web"
    /\ run_phase = "error"
    /\ run_progress.phase = 3
    /\ Len(articles) = 1

\* C14 (as stated): whenever _parse_topic_map reports a failure, the topic
\* entries are what they were before the call.
C14_FailedParseKeepsEntries ==
    [][(parse_report' # parse_report
          /\ parse_report'[Len(parse_report')][1] = "could not parse")
       => topic_entries' = topic_entries]_vars

\* the CSV is readable and every row of it is a valid topic
WellFormed(file) ==
    /\ file.state = "ok"
    /\ \A i \in DOMAIN file.rows : RowOk(file.rows[i])

\* the topics of a well-formed CSV
TableOf(file) == [i \in DOMAIN file.rows |-> RowEntry(file.rows[i])]

\* C15 (as stated): when the human edited the topic map during the phase-1
\* checkpoint (the CSV in the CLI flow, the table of the dashboard in the web
\* flow) and the edited map is well-formed, the brief phase iterates over the
\* topics of the edited map, in priority order.
C15_BriefsFollowEditedMap ==
    flow_pc \in {"brief_kickoff", "p2_topic"} =>
        /\ (csv_edited /\ WellFormed(topic_file)) =>
              sorted_topics = SortedByPriority(TableOf(topic_file))
        /\ topic_edit.edited =>
              sorted_topics = SortedByPriority(topic_edit.table)

\* old is a prefix of new: new is old with elements appended, or old itself
IsPrefix(old, new) ==
    /\ Len(old) <= Len(new)
    /\ SubSeq(new, 1, Len(old)) = old

\* C26: a phase only appends to its own output and leaves the outputs of the
\* phases before it as they are: a step of the Brief phase (phase 2) keeps
\* topic_entries and only appends to briefs; a step of the Production phase
\* (phase 3) keeps topic_entries and briefs and only appends to articles.
C26_PhasesKeepEarlierOutputs ==
    /\ [][PhaseStarted' = 2 =>
            /\ topic_entries' = topic_entries
            /\ IsPrefix(briefs, briefs')
            /\ articles' = articles]_vars
    /\ [][PhaseStarted' = 3 =>
            /\ topic_entries' = topic_entries
            /\ briefs' = briefs
            /\ IsPrefix(articles, articles')]_vars

\* ============================================ properties of the sorted loops

\* the row of the input an entry came from
RowOf(entry) == CHOOSE i \in 1..Len(sort_input) : sort_input[i] = entry

ScoresOf(list) == [i \in 1..Len(list) |-> list[i].priority_score]

\* C16: the Brief phase handles topics, and the Production phase handles
\* briefs, in non-increasing order of priority_score; entries of equal score
\* are handled in the order of the input; every entry of the input is handled
\* once; for the scores 3, 9, 5, 9 the order is the first 9, the second 9, the
\* 5, the 3.
C16_PriorityOrderStable ==
    /\ \A i \in 1..Len(processed) :
          \E k \in 1..Len(sort_input) : sort_input[k] = processed[i]
    /\ \A i, j \in 1..Len(processed) :
          i < j =>
            /\ processed[i].priority_score >= processed[j].priority_score
            /\ processed[i].priority_score = processed[j].priority_score
                  => RowOf(processed[i]) < RowOf(processed[j])
    /\ sort_pc = "done" =>
          /\ Len(processed) = Len(sort_input)
          /\ \A k \in 1..Len(sort_input) :
                \E i \in 1..Len(processed) : processed[i] = sort_input[k]
          /\ ScoresOf(sort_input) = <<3, 9, 5, 9>>
                => processed = <<Entry(2, 9), Entry(4, 9), Entry(3, 5), Entry(1, 3)>>

C16_Witness ==
    /\ sort_site = "brief"
    /\ sort_pc = "done"
    /\ ScoresOf(sort_input) = <<3, 9, 5, 9>>
    /\ Len(processed) = 4

C16_WitnessProduction ==
    /\ sort_site = "production"
    /\ sort_pc = "done"
    /\ ScoresOf(sort_input) = <<3, 9, 5, 9>>
    /\ Len(processed) = 4

\* ============================================== properties of the log queue

\* C19: the events drain_logs has appended to the observer's list are, in
\* order, the first events passed to emit_log: a prefix of the emitted
\* sequence, no event twice, none out of order; the events not yet appended
\* are the queue; the list itself holds the most recent of the appended
\* events (it is emptied when a run is selected).
C19_LogsInEmissionOrder ==
    /\ Len(delivered) <= Len(emitted)
    /\ delivered = SubSeq(emitted, 1, Len(delivered))
    /\ \A i, j \in 1..Len(delivered) : i < j => delivered[i] # delivered[j]
    /\ emitted = delivered \o log_queue
    /\ Len(session_logs) <= Len(delivered)
    /\ session_logs =
          SubSeq(delivered, Len(delivered) - Len(session_logs) + 1, Len(delivered))

\* two events appended while a third is still queued
C19_Witness ==
    /\ Len(delivered) >= 2
    /\ Len(session_logs) >= 2
    /\ log_queue # <<>>

\* ============================================ properties of the RunManager

\* the places of a run among the values of _runs
PlacesOf(run) == { i \in 1..Len(runs_dict) : runs_dict[i][2] = run }

\* C18: under any interleaving of create_run, get_run and list_runs calls,
\* every run that create_run has returned is what get_run finds under its
\* run_id and is listed exactly once by list_runs: no registered run is lost
\* or replaced by another.
C18_RegisteredRunsStay ==
    \A run \in returned :
        /\ DictGet(runs_dict, heap[run].run_id) = run
        /\ Cardinality(PlacesOf(run)) = 1

\* ================================================= properties of the runs

\* a step of the given run: a phase is started for it, or its thread acts
StepOf(run) ==
    \/ RunStartPhase1(run)
    \/ RunStartPhase2(run)
    \/ RunStartPhase3(run)
    \/ RunThreadCompletes(run)
    \/ RunThreadRaises(run)

\* the run waits for an approval or has failed
Waiting(run) == heap[run].phase \in {"phase1_review", "phase2_review", "error"}

\* C20: a run's phase, state, progress, error and log queue change only in a
\* step of that run, and a step changes them for one run only; creating a run
\* leaves the existing runs as they are; while a run waits for approval or is
\* in ERROR, the thread of every running run can still take its step, and
\* every other run the dashboard shows at a checkpoint can still be approved.
C20_RunsIndependent ==
    /\ [][\A run \in DOMAIN heap :
             /\ run \in DOMAIN heap'
             /\ heap'[run] # heap[run] => StepOf(run)
             /\ \A other \in DOMAIN heap :
                   (other # run /\ heap'[run] # heap[run]) => heap'[other] = heap[other]]_vars
    /\ [](\A run, other \in DOMAIN heap :
             (run # other /\ Waiting(run)) =>
               /\ heap[other].phase \in RunningPhases =>
                     ENABLED RunThreadCompletes(other)
               /\ (/\ heap[other].phase = "phase1_review"
                   /\ heap[other].state.topic_count > 0
                   /\ callers["script"].pc = "idle"
                   /\ DictGet(runs_dict, heap[other].run_id) = other) =>
                     ENABLED RunStartPhase2(other)
               /\ (/\ heap[other].phase = "phase2_review"
                   /\ heap[other].state.brief_count > 0
                   /\ callers["script"].pc = "idle"
                   /\ DictGet(runs_dict, heap[other].run_id) = other) =>
                     ENABLED RunStartPhase3(other)
               /\ (other \in returned /\ heap[other].phase = "setup") =>
                     ENABLED RunStartPhase1(other))

\* one run has failed in phase 1 and another has gone on to phase 3
C20_Witness ==
    \E run, other \in DOMAIN heap :
        /\ run # other
        /\ heap[run].phase = "error"
        /\ heap[other].phase = "phase3_running"
        /\ heap[other].progress.phase = 3
        /\ heap[run].progress.phase = 1

\* ================================ properties of _convert_tool_declarations

\* the function declarations of the groups, in order
RECURSIVE SourceDecls(_)
SourceDecls(decls) ==
    IF decls = <<>> THEN <<>>
    ELSE (IF "function_declarations" \in DOMAIN Head(decls)
          THEN Head(decls).function_declarations ELSE <<>>)
           \o SourceDecls(Tail(decls))

\* out is src with every upper-case letter replaced by its lower-case letter
IsLowerOf(out, src) ==
    /\ Len(out) = Len(src)
    /\ \A i \in 1..Len(src) :
          /\ \A k \in DOMAIN Uppercase : out[i] # Uppercase[k]
          /\ UpperChar(out[i]) = UpperChar(src[i])

\* what a schema level of the source holds is held by the output level:
\* the type lower-cased, the same description and required list, and the
\* same for every property, in order, and for the array items
RECURSIVE SpecPreserved(_, _)
SpecPreserved(src, out) ==
    /\ "type" \in DOMAIN src =>
          "type" \in DOMAIN out /\ IsLowerOf(out.type, src.type)
    /\ "description" \in DOMAIN src =>
          "description" \in DOMAIN out /\ out.description = src.description
    /\ "required" \in DOMAIN src =>
          "required" \in DOMAIN out /\ out.required = src.required
    /\ "properties" \in DOMAIN src =>
          /\ "properties" \in DOMAIN out
          /\ Len(out.properties) = Len(src.properties)
          /\ \A n \in 1..Len(src.properties) :
                /\ out.properties[n][1] = src.properties[n][1]
                /\ SpecPreserved(src.properties[n][2], out.properties[n][2])
    /\ "items" \in DOMAIN src =>
          "items" \in DOMAIN out /\ SpecPreserved(src.items, out.items)

\* C21: _convert_tool_declarations returns one tool per function
\* declaration, in the order of the declarations, with the same name and
\* description; the input schema has, at every level of nested properties and
\* array items, the same required list and the source type in lower case.
C21_DeclarationsPreserved ==
    conv_pc = "returned" =>
        LET src == SourceDecls(gemini_decls)
        IN  /\ Len(anthropic_tools) = Len(src)
            /\ \A n \in 1..Len(src) :
                  /\ anthropic_tools[n].name = src[n].name
                  /\ "description" \in DOMAIN src[n] =>
                        anthropic_tools[n].description = src[n].description
                  /\ "parameters" \in DOMAIN src[n] =>
                        LET params == src[n].parameters
                            schema == [key \in DOMAIN params \ {"description"} |->
                                          params[key]]
                        IN  SpecPreserved(schema, anthropic_tools[n].input_schema)

\* an array of objects holding an array of objects holding a string
DeepSpec ==
    [type |-> TypeArray,
     items |-> [type |-> TypeObjectUpper, required |-> <<"p">>,
                properties |-> <<<<"p",
                    [type |-> TypeArray,
                     items |-> [type |-> TypeObjectUpper, required |-> <<"p">>,
                                properties |-> <<<<"p",
                                    [type |-> TypeString, description |-> "text"]>>>>]]>>>>]]

\* a schema of depth 5 has been translated
C21_Witness ==
    /\ conv_pc = "returned"
    /\ gemini_decls = <<[function_declarations |-> <<DeclOf("search", DeepSpec)>>]>>
    /\ Len(anthropic_tools) = 1
    /\ anthropic_tools[1].input_schema.properties[1][2].items.properties[1][2].type
          = <<"a", "r", "r", "a", "y">>

\* the output level holds no key the source level lacks, and so for every
\* property and for the array items
RECURSIVE NothingAdded(_, _)
NothingAdded(src, out) ==
    /\ DOMAIN out \subseteq DOMAIN src
    /\ ("properties" \in DOMAIN src /\ "properties" \in DOMAIN out) =>
          \A n \in 1..Len(out.properties) :
              /\ n <= Len(src.properties)
              /\ NothingAdded(src.properties[n][2], out.properties[n][2])
    /\ ("items" \in DOMAIN src /\ "items" \in DOMAIN out) =>
          NothingAdded(src.items, out.items)

\* C22: the translator fabricates nothing: a tool has a description only if
\* its declaration has one and an input schema only if the declaration has
\* parameters, and a level of the schema has a type, properties, a required
\* list, a description or items only if the source has it at the same place.
C22_NothingFabricated ==
    conv_pc = "returned" =>
        LET src == SourceDecls(gemini_decls)
        IN  \A n \in 1..Len(anthropic_tools) :
              /\ n <= Len(src)
              /\ "description" \notin DOMAIN src[n] =>
                    "description" \notin DOMAIN anthropic_tools[n]
              /\ "parameters" \notin DOMAIN src[n] =>
                    "input_schema" \notin DOMAIN anthropic_tools[n]
              /\ "parameters" \in DOMAIN src[n] =>
                    NothingAdded(src[n].parameters, anthropic_tools[n].input_schema)

\* ============================================ properties of the topic-map CSV

\* the value an entry holds for a written cell: the integer for the integer
\* columns, the text otherwise
WrittenValue(row, name) ==
    IF name \in IntColumns THEN IntOf(row[name][1]) ELSE row[name]

\* the data rows written are well formed: integers in range
RowsWellFormed ==
    \A r \in 1..Len(csv_values.rows) : csv_values.rows[r] \in {RowPillar, RowCluster}

\* C23: when the writer tool has accepted the header (all 17 columns) of a
\* table of N well-formed rows, _parse_topic_map on the file yields N
\* entries, in row order, and every field of every entry is the value
\* written.
C23_TableRoundTrip ==
    (csv_pc \in {"briefs", "done"} /\ writer_result # <<>> /\ writer_result[1] = "SUCCESS"
       /\ RowsWellFormed) =>
        /\ Len(csv_entries) = Len(csv_values.rows)
        /\ \A r \in 1..Len(csv_entries) :
              \A n \in 1..Len(CSV_HEADERS) :
                  csv_entries[r][CSV_HEADERS[n]]
                    = WrittenValue(csv_values.rows[r], CSV_HEADERS[n])


\* the word counts of an entry or of a brief are positive and in order
WordCountsInOrder(e) ==
    /\ e.word_count_min > 0
    /\ e.word_count_max > 0
    /\ e.word_count_min <= e.word_count_max

\* C24: every TopicMapEntry of the state and every ContentBrief derived from
\* one has word_count_min <= word_count_max and both positive, whatever the
\* topic-map CSV holds.
C24_WordCountsInOrder ==
    /\ \A r \in 1..Len(csv_entries) : WordCountsInOrder(csv_entries[r])
    /\ \A b \in 1..Len(csv_briefs) : WordCountsInOrder(csv_briefs[b])

\* the header cells are written as the column names, with no blank around
WrittenPlainly ==
    \E style \in {"plain", "quoted"} : csv_content = FormatCsv(csv_values, style)

AtWork(s) == session_pc[s] \notin {"start", "done"}

\* C27: two pipelines at work at the same time, web runs or CLI sessions,
\* never write the same path: the files of one are not files of the other.
C27_NoSharedOutputPath ==
    \A s, t \in Sessions :
        (s # t /\ AtWork(s) /\ AtWork(t)) =>
            files_written[s] \cap files_written[t] = {}


\* ======================= properties of the threads of a run and the script

\* the thread of phase k has statements left to run
ThreadAlive(k) == thread_pc[k] \notin {"idle", "ended"}

\* C28: a run has one log producer at a time: the thread of phase k+1 is
\* started only when the thread of phase k has ended, so the events on the
\* queue come in the order of their phases.
C28_SingleProducer ==
    /\ \A k \in {1, 2} : thread_pc[k + 1] # "idle" => thread_pc[k] = "ended"
    /\ \A i, j \in 1..Len(emitted) :
          i < j => emitted[i].phase <= emitted[j].phase

\* C29: when the script has read run.phase == ERROR, run.error holds the
\* message of the exception: the page never shows the error as None.
C29_ErrorSetBeforePhase ==
    /\ script_pc = "read_error" => run_error # "None"
    /\ shown_error # "None"


\* C30: with the threads and the script scheduled fairly, every event the
\* run emits reaches the log list of the observer without an action of the
\* user: once n events are emitted, n events are eventually in the list.
C30_EveryEventDrained ==
    \A n \in 1..(2 * Cardinality(Phases)) :
        (Len(emitted) >= n) ~> (Len(session_logs) >= n)


\* ============================================ the round cap of chat()

\* the response the call ended with
LastResponse == responses[Len(responses)]

\* the call ended at the cap: max_tool_rounds result turns were sent and the
\* response to the last of them asks for tools again
EndedAtCap ==
    /\ chat_pc = "done"
    /\ Len(responses) = max_tool_rounds + 1
    /\ ToolRequest(LastResponse)

\* C31: chat sends at most max_tool_rounds + 1 requests to the provider and
\* serves the tool requests of at most max_tool_rounds responses (every tool
\* call and every results turn belongs to one of the first max_tool_rounds
\* responses); when the call ends at the cap, no tool request of the last
\* response was executed and nothing was sent or appended after it; with
\* max_tool_rounds = 0 no tool is executed at all.
C31_RoundCap ==
    /\ Len(sends) <= max_tool_rounds + 1
    /\ \A i \in DOMAIN invocations : invocations[i].id[1] <= max_tool_rounds
    /\ \A n \in DOMAIN responses : Len(sends) > n => n <= max_tool_rounds
    /\ EndedAtCap =>
          /\ \A i \in DOMAIN invocations : invocations[i].id[1] # Len(responses)
          /\ Len(sends) = Len(responses)
          /\ messages = sends[Len(sends)]
    /\ max_tool_rounds = 0 => invocations = <<>>

\* a call with a positive cap that executed tools and ended at the cap with
\* tool requests left unserved
C31_Witness ==
    /\ EndedAtCap
    /\ max_tool_rounds >= 1
    /\ invocations # <<>>
    /\ Requests(LastResponse.content) # <<>>


\* ========================================= the value that chat() returns

\* the texts of the text blocks of a content that are not empty, in order
RECURSIVE NonEmptyTexts(_)
NonEmptyTexts(content) ==
    IF content = <<>> THEN <<>>
    ELSE (IF content[1].type = "text" /\ content[1].text # <<>>
          THEN <<content[1].text>> ELSE <<>>)
         \o NonEmptyTexts(Tail(content))

\* the texts with one newline between each two of them
RECURSIVE NewlineJoin(_)
NewlineJoin(texts) ==
    IF texts = <<>> THEN <<>>
    ELSE IF Len(texts) = 1 THEN texts[1]
    ELSE texts[1] \o <<"\n">> \o NewlineJoin(Tail(texts))

\* some response before the last carried text next to its tool requests
EarlierTextWithTools ==
    \E n \in 1..(Len(responses) - 1) :
        /\ ToolRequest(responses[n])
        /\ NonEmptyTexts(responses[n].content) # <<>>

\* C32: the value chat returns is the newline-join of the non-empty text
\* blocks of the last response of the call and of no other response, whether
\* the loop ended on a response without tool requests or at the round cap.
C32_ReturnsLastResponseText ==
    chat_pc = "done" =>
        chat_ret = NewlineJoin(NonEmptyTexts(LastResponse.content))

\* a call that ended at the cap on a response without text, after a response
\* that carried text next to its tool requests: the value returned is empty
C32_Witness ==
    /\ EndedAtCap
    /\ EarlierTextWithTools
    /\ NonEmptyTexts(LastResponse.content) = <<>>
    /\ chat_ret = <<>>

\* a call that ended on a plain-text response after a response that carried
\* other text next to its tool requests
C32_PlainEnd ==
    /\ chat_pc = "done"
    /\ PlainText(LastResponse)
    /\ EarlierTextWithTools
    /\ chat_ret = T1


\* =================================== the articles of the production phase

\* one of the two production loops is at work
InProduction == driver \in {"cli", "web"}

\* the step is a kickoff of the production crew that returned
AttemptReturns == InProduction /\ flow_pc = "attempt" /\ result_text' \in KickoffTexts
                     /\ flow_pc' # "failed"

\* the article the step appended
Appended == articles'[Len(articles')]

\* C35: every Article in a run's state has qa_status PASSED or FLAGGED and
\* 1 <= qa_attempts <= 3. Attempt k+1 of a brief is made only after attempt k
\* failed; the Article appended after attempt k is PASSED with qa_attempts = k
\* exactly when attempt k passed, and FLAGGED exactly when attempt k failed,
\* which happens at k = 3 only. The articles only grow, by one Article for
\* the brief whose attempts ended, so that article i belongs to brief i of the
\* processing order and a phase that ends has one Article per brief.
C35_ArticleRecordsOutcome ==
    /\ [](InProduction =>
            /\ \A i \in DOMAIN articles :
                  /\ articles[i].qa_status \in {"PASSED", "FLAGGED"}
                  /\ articles[i].qa_attempts \in 1..3
                  /\ articles[i].qa_status = "FLAGGED" => articles[i].qa_attempts = 3
                  /\ articles[i].topic_name = sorted_briefs[i].topic_name
            /\ Len(articles) <= Len(briefs)
            /\ flow_pc = "attempt" => Len(articles) = brief_i - 1
            /\ flow_pc = "done" => Len(articles) = Len(briefs))
    /\ [][InProduction => IsPrefix(articles, articles')]_vars
    /\ [][AttemptReturns =>
            IF articles' = articles
            THEN /\ ~IsPassed(result_text')
                 /\ flow_attempt < 3
                 /\ flow_attempt' = flow_attempt + 1
                 /\ brief_i' = brief_i
            ELSE /\ Len(articles') = Len(articles) + 1
                 /\ Len(articles') = brief_i
                 /\ Appended.qa_attempts = flow_attempt
                 /\ Appended.qa_status = "PASSED" <=> IsPassed(result_text')
                 /\ Appended.qa_status = "FLAGGED" <=>
                       (~IsPassed(result_text') /\ flow_attempt = 3)
                 /\ flow_pc' = "attempt" => flow_attempt' = 1 /\ brief_i' = brief_i + 1]_vars

\* a phase that ended with one brief flagged after three attempts and one
\* passed at its second attempt
C35_Witness ==
    /\ InProduction
    /\ flow_pc = "done"
    /\ Len(articles) = 2
    /\ \E i, j \in DOMAIN articles :
          /\ articles[i].qa_status = "FLAGGED" /\ articles[i].qa_attempts = 3
          /\ articles[j].qa_status = "PASSED" /\ articles[j].qa_attempts = 2


\* ================================== the inputs of the production attempts

\* the content of the brief being processed, as the loop read it
OriginalContent ==
    IF driver = "cli" THEN ReadBriefCli(sorted_briefs[brief_i], brief_files)
    ELSE ReadBriefWeb(sorted_briefs[brief_i], brief_files)

\* the original content followed by the notes on attempt k, whose result was text
WithNotesOn(k, text) ==
    OriginalContent \o NotesHead \o <<Digits[k]>> \o NotesTail \o text

\* C36: every attempt is one kickoff of the production crew with the inputs
\* of the brief. Attempt 1 is given the original brief content; attempt k+1 is
\* given the original brief content followed by the revision notes built from
\* the result of attempt k, and nothing of the attempts before k. After the
\* last attempt of a brief (a pass, or the third failure) no notes are built:
\* the inputs stay as they are or are replaced by those of the next brief.
C36_NotesOfLastAttemptOnly ==
    /\ []((InProduction /\ flow_pc = "attempt") =>
            /\ brief_content = OriginalContent
            /\ inputs.topic_name = sorted_briefs[brief_i].topic_name
            /\ inputs.brief_content =
                  IF flow_attempt = 1 THEN OriginalContent
                  ELSE WithNotesOn(flow_attempt - 1, result_text))
    /\ [][AttemptReturns =>
            IF ~IsPassed(result_text') /\ flow_attempt < 3
            THEN /\ flow_pc' = "attempt"
                 /\ flow_attempt' = flow_attempt + 1
                 /\ inputs'.brief_content = WithNotesOn(flow_attempt, result_text')
            ELSE \/ inputs' = inputs
                 \/ /\ brief_i' = brief_i + 1
                    /\ flow_attempt' = 1]_vars

\* the third attempt of a brief is about to run, with the notes on the second
C36_Witness ==
    /\ InProduction
    /\ flow_pc = "attempt"
    /\ flow_attempt = 3
    /\ inputs.brief_content = WithNotesOn(2, result_text)


\* ========================== the CLI flow when the Brief phase has no topics

\* run_brief_phase found no topic entries, also after its own parse
BriefPhaseFailed == driver = "cli" /\ brief_phase_ret = "phase_2_failed"

\* C37: in the CLI flow, a Brief phase that has no topic entries after its own
\* attempt to parse the CSV returns phase_2_failed without generating a brief,
\* and the flow goes on: from there the only steps are the phase-2
\* checkpoint, then the Production phase, which handles zero briefs, makes no
\* kickoff, appends no article and writes its index, then finalize. No step
\* stops the flow.
C37_FailedBriefPhaseGoesOn ==
    /\ [][(driver = "cli" /\ flow_pc = "brief" /\ topic_entries' = <<>>) =>
            /\ brief_phase_ret' = "phase_2_failed"
            /\ flow_pc' = "checkpoint2"
            /\ briefs' = <<>>]_vars
    /\ [](BriefPhaseFailed =>
            /\ topic_entries = <<>>
            /\ briefs = <<>>
            /\ brief_files = {}
            /\ articles = <<>>
            /\ flow_pc \in {"checkpoint2", "start", "done", "finalized"}
            /\ flow_pc = "checkpoint2" => current_phase = 2 /\ approved = <<1>>
            /\ flow_pc = "start" => current_phase = 2 /\ approved = <<1, 2>>
            /\ flow_pc \in {"done", "finalized"} =>
                  /\ current_phase = 3
                  /\ approved = <<1, 2>>
                  /\ sorted_briefs = <<>>
                  /\ index_written)
    /\ [][(BriefPhaseFailed /\ flow_pc = "checkpoint2") => flow_pc' = "start"]_vars
    /\ [][(BriefPhaseFailed /\ flow_pc = "start") => flow_pc' = "done"]_vars
    /\ [][(BriefPhaseFailed /\ flow_pc = "done") => flow_pc' = "finalized"]_vars

\* the flow was finalized after a Brief phase that reported phase_2_failed
C37_Witness ==
    /\ BriefPhaseFailed
    /\ flow_pc = "finalized"
    /\ parse_report # <<>>


\* ================= the topic data and the brief file of a production attempt

\* the pipeline is in its Production phase, at a kickoff
AtProductionKickoff ==
    /\ driver \in {"cli", "web"}
    /\ flow_pc = "attempt"
    /\ sorted_topics # <<>>

\* the briefs were created one per topic entry, in the order of the Brief
\* phase, and the Production phase handles them in that order
BriefsFollowTopics ==
    AtProductionKickoff =>
        /\ Len(sorted_briefs) = Len(sorted_topics)
        /\ \A k \in DOMAIN sorted_briefs : sorted_briefs[k] = NewBrief(sorted_topics[k])

\* C38: at every kickoff of the Production phase, the inputs carry the data of
\* the topic entry the brief being processed was created from, and the file
\* read for the brief is the file of no other brief of the run.
C38_BriefKeepsItsTopicData ==
    AtProductionKickoff =>
        /\ inputs.topic_name = sorted_topics[brief_i].topic_name
        /\ inputs.primary_keyword = sorted_topics[brief_i].primary_keyword
        /\ \A k \in DOMAIN sorted_briefs :
              k # brief_i => sorted_briefs[k].filename # sorted_briefs[brief_i].filename

\* the same, for runs whose topic entries differ in topic_name
C38_HoldsForDistinctNames ==
    (\A i, j \in DOMAIN topic_entries :
        topic_entries[i].topic_name = topic_entries[j].topic_name => i = j)
    => C38_BriefKeepsItsTopicData

\* a kickoff of the Production phase in a run with two topics of distinct names
C38_DistinctNamesReached ==
    /\ AtProductionKickoff
    /\ Len(topic_entries) = 2
    /\ topic_entries[1].topic_name # topic_entries[2].topic_name
    /\ brief_i = 2


\* ==================== the outputs of a phase when its phase value is read

\* the outputs of phase 2 are complete: one brief per topic entry, in the
\* order of the loop
BriefsComplete ==
    /\ Len(briefs) = Len(topic_entries)
    /\ \A k \in DOMAIN briefs : briefs[k] = NewBrief(SortedByPriority(topic_entries)[k])

\* the outputs of phase 3 are complete: one article per brief, in the order
\* of the loop
ArticlesComplete ==
    /\ Len(articles) = Len(briefs)
    /\ \A k \in DOMAIN articles :
          articles[k].topic_name = SortedByPriority(briefs)[k].topic_name

\* C33: the phase value of a run is assigned after the outputs of the phase
\* are complete. While run.phase is PHASE1_REVIEW no step changes
\* topic_entries (the thread of phase 1 has only its last log event left);
\* whenever run.phase is PHASE2_REVIEW there is one brief per topic entry;
\* whenever it is COMPLETE there is one article per brief.
C33_PhasePublishedAfterOutputs ==
    /\ [](run_phase = "phase1_review" => thread_pc[1] \in {"completing", "ended"})
    /\ [][run_phase = "phase1_review" => topic_entries' = topic_entries]_vars
    /\ [](run_phase = "phase2_review" => BriefsComplete)
    /\ [][run_phase = "phase2_review" => briefs' = briefs]_vars
    /\ [](run_phase = "complete" => BriefsComplete /\ ArticlesComplete)
    /\ [][run_phase = "complete" => articles' = articles]_vars

\* a complete run with two articles, read by a script run of the dashboard
C33_Witness ==
    /\ driver = "threads"
    /\ run_phase = "complete"
    /\ Len(topic_entries) = 2
    /\ Len(articles) = 2
    /\ script_pc = "error_check"


\* ================================================ the phase value of a run

\* the values of RunPhase in the order of the pipeline, ERROR last
PhaseChain ==
    <<"setup", "phase1_running", "phase1_review", "phase2_running",
      "phase2_review", "phase3_running", "complete", "error">>

\* the place of a phase value in the chain
PhasePos(phase) == CHOOSE i \in DOMAIN PhaseChain : PhaseChain[i] = phase

\* C34: run.phase changes only from a value to the next one of SETUP,
\* PHASE1_RUNNING, PHASE1_REVIEW, PHASE2_RUNNING, PHASE2_REVIEW,
\* PHASE3_RUNNING, COMPLETE, or from a running value to ERROR: every change
\* moves forward in the chain, so no value is entered twice, and COMPLETE and
\* ERROR are never left.
C34_PhaseMovesForward ==
    /\ [](run_phase \in Range(PhaseChain))
    /\ [][run_phase' # run_phase =>
            /\ PhasePos(run_phase') > PhasePos(run_phase)
            /\ \/ /\ run_phase' # "error"
                  /\ PhasePos(run_phase') = PhasePos(run_phase) + 1
               \/ /\ run_phase' = "error"
                  /\ run_phase \in {"phase1_running", "phase2_running",
                                    "phase3_running"}]_vars
    /\ [][(run_phase \in {"complete", "error"}) => run_phase' = run_phase]_vars

\* a run that went through the whole chain, the user still clicking
C34_Witness ==
    /\ driver = "threads"
    /\ run_phase = "complete"
    /\ thread_pc[3] = "ended"
    /\ script_pc = "drain"

\* a run that ended in ERROR in its second phase
C34_WitnessError ==
    /\ driver = "threads"
    /\ run_phase = "error"
    /\ thread_pc[2] = "ended"
    /\ thread_pc[3] = "idle"

====
